---- MODULE Spec2Model ----
(***************************************************************************)
(* Process-automation engine of the three-fermenter control panel          *)
(* (src/TestGUI_3F_v5_cl.py): calendar lookup, Hardware layer with its      *)
(* simulator fallback, and the per-panel thermal / dosing control.          *)
(*                                                                         *)
(* Units.  Time is an integer number of seconds since day 0, 00:00:00.     *)
(* Temperatures, setpoints and bands are integers in units of 0.05 degC    *)
(* (20.0 degC = 400).  Dosing durations are whole seconds.                  *)
(* A Python str is the sequence of its character codes, so that str        *)
(* comparison is the lexicographic comparison Python performs.             *)
(***************************************************************************)
EXTENDS Integers, Sequences, FiniteSets, TLC

\* Python's None: as a handle it is the string below; where a number is expected
\* (a datetime, a float) it is Nil, a number outside every range the model uses.
None == "None"
Nil == 0 - 1000000

\* ------------------------------------------------------------------------
\* Time and strings
\* ------------------------------------------------------------------------
\* dt.datetime fields of an instant
DateOf(tm) == tm \div 86400
HourOf(tm) == (tm % 86400) \div 3600
MinuteOf(tm) == (tm % 3600) \div 60
At(day, h, m, s) == day * 86400 + h * 3600 + m * 60 + s

\* character codes: '0'..'9' are 48..57 and ':' is 58
Digit(d) == 48 + d
Colon == 48 + 10
IsDigit(c) == c >= 48 /\ c <= 57

\* ymd(date): "%Y-%m-%d" of a date.  The calendars are keyed by this string and
\* only ever looked up by equality; the day number stands for its (unique) string.
ymd(date) == date

\* t.strftime("%H:%M"): always two digits, a colon, two digits
strftime_HM(tm) ==
    << Digit(HourOf(tm) \div 10), Digit(HourOf(tm) % 10), Colon,
       Digit(MinuteOf(tm) \div 10), Digit(MinuteOf(tm) % 10) >>

\* tnow.strftime("%Y-%m-%d %H:%M")
strftime_YmdHM(tm) == << ymd(DateOf(tm)), strftime_HM(tm) >>

\* Python's a <= b on str: lexicographic on the character codes
RECURSIVE StrLeq(_, _)
StrLeq(a, b) ==
    IF a = << >> THEN TRUE
    ELSE IF b = << >> THEN FALSE
    ELSE IF Head(a) < Head(b) THEN TRUE
    ELSE IF Head(a) > Head(b) THEN FALSE
    ELSE StrLeq(Tail(a), Tail(b))

\* s.split(":")
RECURSIVE SplitColon(_)
SplitColon(s) ==
    IF s = << >> THEN << << >> >>
    ELSE LET rest == SplitColon(Tail(s))
         IN  IF Head(s) = Colon THEN << << >> >> \o rest
             ELSE << << Head(s) >> \o rest[1] >> \o Tail(rest)

\* int(s) of a string of decimal digits (other spellings are outside the model);
\* -1 stands for the ValueError
RECURSIVE IntOf(_, _)
IntOf(s, acc) ==
    IF s = << >> THEN acc
    ELSE IF ~IsDigit(Head(s)) THEN -1
    ELSE IntOf(Tail(s), acc * 10 + (Head(s) - 48))

ParseInt(s) == IF s = << >> THEN -1 ELSE IntOf(s, 0)

hhmm_ok(s) ==
    LET parts == SplitColon(s)
    IN  IF Len(parts) # 2 THEN FALSE
        ELSE LET h == ParseInt(parts[1])
                 m == ParseInt(parts[2])
             IN  h >= 0 /\ m >= 0 /\ h <= 23 /\ m <= 59

\* ------------------------------------------------------------------------
\* Calendars: a dict  ymd -> list of events {"time": str, "value": number}
\* is a function whose DOMAIN is the set of keys present.
\* ------------------------------------------------------------------------
Event(tstr, val) == [time |-> tstr, value |-> val]

\* events_dict.get(key, [])
DictGet(events_dict, key) ==
    IF key \in DOMAIN events_dict THEN events_dict[key] ELSE << >>

\* sorted(list, key=lambda e: e["time"]): stable, ascending by the time string
RECURSIVE InsertByTime(_, _)
InsertByTime(sorted, e) ==
    IF sorted = << >> THEN << e >>
    ELSE LET last == sorted[Len(sorted)]
         IN  IF StrLeq(last.time, e.time) THEN Append(sorted, e)
             ELSE Append(InsertByTime(SubSeq(sorted, 1, Len(sorted) - 1), e), last)

RECURSIVE SortedByTime(_)
SortedByTime(flist) ==
    IF flist = << >> THEN << >>
    ELSE InsertByTime(SortedByTime(SubSeq(flist, 1, Len(flist) - 1)), flist[Len(flist)])

sp_from_date_calendar(events_dict, tm, default) ==
    IF DOMAIN events_dict = {} THEN default
    ELSE LET key == ymd(DateOf(tm))
             flist == DictGet(events_dict, key)
         IN  IF flist = << >> THEN default
             ELSE LET hhmm_now == strftime_HM(tm)
                      IsDue(e) == e.time # << >> /\ StrLeq(e.time, hhmm_now)
                      todays == SelectSeq(flist, IsDue)
                  IN  IF todays = << >> THEN default
                      ELSE LET srt == SortedByTime(todays)
                           IN  srt[Len(srt)].value

nut_fire_for_minute(events_dict, tm) ==
    IF DOMAIN events_dict = {} THEN << >>
    ELSE LET key == ymd(DateOf(tm))
             flist == DictGet(events_dict, key)
         IN  IF flist = << >> THEN << >>
             ELSE LET hhmm_now == strftime_HM(tm)
                      Fires(e) == e.time = hhmm_now
                      hits == SelectSeq(flist, Fires)
                  IN  [i \in 1..Len(hits) |-> hits[i].value]

\* ------------------------------------------------------------------------
\* DateCalendarDialog.  The dialog is [open, which, data, today,
\* selected_date]: data is the calendar being edited, today the date taken
\* when the dialog was built.  A raw value is what an entry field or a cell of
\* an imported row holds: [kind, empty, parses, num] with kind "str" (entry
\* text, CSV cell), "num" (Excel cell) or "none" (no such column); float() of
\* it is num when parses holds and raises otherwise.
\* ------------------------------------------------------------------------
NoDialog ==
    [open |-> FALSE, which |-> "none", data |-> << >>, today |-> 0, selected_date |-> 0]

\* DateCalendarDialog.__init__: data is a copy of initial
DialogNew(which, initial, today) ==
    [open |-> TRUE, which |-> which, data |-> initial, today |-> today,
     selected_date |-> today]

Str(num) == [kind |-> "str", empty |-> FALSE, parses |-> TRUE, num |-> num]
Num(num) == [kind |-> "num", empty |-> FALSE, parses |-> TRUE, num |-> num]
Garbage == [kind |-> "str", empty |-> FALSE, parses |-> FALSE, num |-> 0]
EmptyStr == [kind |-> "str", empty |-> TRUE, parses |-> FALSE, num |-> 0]
Missing == [kind |-> "none", empty |-> TRUE, parses |-> FALSE, num |-> 0]

\* Python truth value of a raw value: None, "" and 0 are false
Truthy(raw) ==
    /\ raw.kind # "none"
    /\ ~(raw.kind = "str" /\ raw.empty)
    /\ ~(raw.kind = "num" /\ raw.num = 0)

\* select_date
select_date(d, date) ==
    IF date < d.today THEN d ELSE [d EXCEPT !.selected_date = date]

\* self.data.setdefault(key, []).append(e)
DictAppend(events_dict, key, e) ==
    IF key \in DOMAIN events_dict
    THEN [events_dict EXCEPT ![key] = Append(@, e)]
    ELSE [k \in DOMAIN events_dict \cup {key} |->
             IF k = key THEN << e >> ELSE events_dict[k]]

\* del self.data[key]
DictDel(events_dict, key) ==
    [k \in DOMAIN events_dict \ {key} |-> events_dict[k]]

\* list.index(x): the first position holding an equal element
IndexOf(flist, x) == CHOOSE i \in 1..Len(flist) :
                         flist[i] = x /\ \A j \in 1..(i - 1) : flist[j] # x

RemoveAt(flist, i) == SubSeq(flist, 1, i - 1) \o SubSeq(flist, i + 1, Len(flist))

\* add_event; t is the time entry, raw the value entry
add_event(d, t, raw) ==
    IF d.selected_date < d.today THEN d
    ELSE IF ~hhmm_ok(t) THEN d
    ELSE IF ~raw.parses THEN d
    ELSE [d EXCEPT !.data = DictAppend(@, ymd(d.selected_date), Event(t, raw.num))]

\* edit_event; idx is the list box selection (0: none), counted from 1
edit_event(d, idx, t, raw) ==
    LET key == ymd(d.selected_date)
        flist == SortedByTime(DictGet(d.data, key))
    IN  IF idx = 0 \/ flist = << >> THEN d
        ELSE IF ~hhmm_ok(t) THEN d
        ELSE IF ~raw.parses THEN d
        ELSE LET orig == IndexOf(d.data[key], flist[idx])
             IN  [d EXCEPT !.data[key][orig] = Event(t, raw.num)]

\* del_event
del_event(d, idx) ==
    LET key == ymd(d.selected_date)
        flist == SortedByTime(DictGet(d.data, key))
    IN  IF idx = 0 \/ flist = << >> THEN d
        ELSE LET rest == RemoveAt(d.data[key], IndexOf(d.data[key], flist[idx]))
             IN  IF rest = << >> THEN [d EXCEPT !.data = DictDel(@, key)]
                 ELSE [d EXCEPT !.data[key] = rest]

\* clear_day; yes is the answer to the question box
clear_day(d, yes) ==
    LET key == ymd(d.selected_date)
    IN  IF key \in DOMAIN d.data /\ d.data[key] # << >> /\ yes
        THEN [d EXCEPT !.data = DictDel(@, key)]
        ELSE d

\* _events_from_rows over rows[i..]; a row is [date, time, value]: date is
\* [ok, day] (ok: one of the four formats of _normalize_date matches), time a
\* string, value a raw value
RECURSIVE events_from_rows(_, _, _)
events_from_rows(rows, i, events) ==
    IF i > Len(rows) THEN events
    ELSE LET row == rows[i]
             skip == \/ ~row.date.ok
                     \/ row.time = << >>
                     \/ ~Truthy(row.value)
                     \/ ~hhmm_ok(row.time)
                     \/ ~row.value.parses
         IN  events_from_rows(rows, i + 1,
                 IF skip THEN events
                 ELSE DictAppend(events, ymd(row.date.day), Event(row.time, row.value.num)))

\* import_file with _import_calendar as the callback: a file with no valid row
\* gives None and the data is kept
import_file(d, rows) ==
    LET data == events_from_rows(rows, 1, << >>)
    IN  IF DOMAIN data = {} THEN d ELSE [d EXCEPT !.data = data]

\* ------------------------------------------------------------------------
\* Panels and pins
\* ------------------------------------------------------------------------
\* number of fermenter panels modelled (the program builds F1, F2 and F3)
NFerms == 2

Names == << "F1", "F2", "F3" >>
Ferms == SubSeq(Names, 1, NFerms)
Vessels == {Ferms[i] : i \in 1..Len(Ferms)}

RELAY_PINS ==
    [F1 |-> [cold |-> 7, hot |-> 8],
     F2 |-> [cold |-> 24, hot |-> 23],
     F3 |-> [cold |-> 18, hot |-> 15]]

\* int(self.name[1:]) - 1
VesselIndex(v) == CHOOSE i \in 0..2 : Names[i + 1] = v

Pins == UNION {{RELAY_PINS[v].cold, RELAY_PINS[v].hot} : v \in Vessels}

\* ------------------------------------------------------------------------
\* Hardware layer.  A Hardware object is a record; every method is an operator
\* from the object (and its arguments) to the object after the call.
\*   out, pwm_on : what the GPIO driver was last made to do (pin levels, PWM
\*                 running); a relay is energised when its pin is LOW
\*   drv         : driver statements attempted by the handler now running (a
\*                 counter of the handler, 0 between handlers)
\*   raised      : an exception left a Hardware method
\* The argument exc says which statement of the method's try block raises
\* (0: none).
\* ------------------------------------------------------------------------
HwNew(simulador, gpio_ok, ndev) ==
    [sim |-> simulador,
     sim_reason |-> IF simulador THEN "Forzado por variable de entorno" ELSE "",
     sim_gpio |-> simulador \/ ~gpio_ok,
     sim_gpio_reason |->
         IF simulador THEN "Forzado por variable de entorno"
         ELSE IF ~gpio_ok THEN "GPIO fallback" ELSE "",
     gpio |-> IF ~simulador /\ gpio_ok THEN "GPIO" ELSE None,
     pwms |-> {},
     last_temp_error |-> FALSE,
     ds_devices |-> IF simulador THEN 0 ELSE ndev,
     out |-> [p \in Pins |-> "unset"],
     pwm_on |-> [n \in Vessels |-> FALSE],
     drv |-> 0,
     raised |-> FALSE]

\* _gpio_fallback as it would be if it put the whole Hardware in simulation
gpio_fallback_AllSim(h) ==
    IF h.sim_gpio THEN h
    ELSE [h EXCEPT !.sim = TRUE,
                   !.sim_reason = "GPIO fallback",
                   !.sim_gpio = TRUE,
                   !.sim_gpio_reason = "GPIO fallback",
                   !.gpio = None,
                   !.pwms = {}]

gpio_fallback(h) ==
    IF h.sim_gpio THEN h
    ELSE [h EXCEPT !.sim_gpio = TRUE,
                   !.sim_gpio_reason = "GPIO fallback",
                   !.gpio = None,
                   !.pwms = {}]

\* the guard every actuator method starts with
HwInactive(h) == h.sim \/ h.sim_gpio \/ h.gpio = None

Drv(h, n) == [h EXCEPT !.drv = @ + n]

setup_relay(h, pin, exc) ==
    IF HwInactive(h) THEN h
    ELSE IF exc = 1 THEN gpio_fallback(Drv(h, 1))
    ELSE IF exc = 2 THEN gpio_fallback(Drv(h, 2))
    ELSE [Drv(h, 2) EXCEPT !.out[pin] = "HIGH"]

relay_on(h, pin, exc) ==
    IF HwInactive(h) THEN h
    ELSE IF exc = 1 THEN gpio_fallback(Drv(h, 1))
    ELSE [Drv(h, 1) EXCEPT !.out[pin] = "LOW"]

\* relay_off as it would be without its except clause
relay_off_NoCatch(h, pin, exc) ==
    IF HwInactive(h) THEN h
    ELSE IF exc = 1 THEN [Drv(h, 1) EXCEPT !.raised = TRUE]
    ELSE [Drv(h, 1) EXCEPT !.out[pin] = "HIGH"]

relay_off(h, pin, exc) ==
    IF HwInactive(h) THEN h
    ELSE IF exc = 1 THEN gpio_fallback(Drv(h, 1))
    ELSE [Drv(h, 1) EXCEPT !.out[pin] = "HIGH"]

\* GPIO.setup(dir); GPIO.output(dir); GPIO.setup(pul); GPIO.PWM(pul, ...)
setup_stepper(h, name, exc) ==
    IF HwInactive(h) THEN h
    ELSE IF exc \in 1..4 THEN gpio_fallback(Drv(h, exc))
    ELSE [Drv(h, 4) EXCEPT !.pwms = @ \cup {name}]

\* pwm.ChangeFrequency(...); pwm.start(1)
start_stepper(h, name, exc) ==
    IF HwInactive(h) THEN h
    ELSE IF name \notin h.pwms THEN h
    ELSE IF exc \in {1, 2} THEN gpio_fallback(Drv(h, exc))
    ELSE [Drv(h, 2) EXCEPT !.pwm_on[name] = TRUE]

\* pwm.stop(); gpio.output(dir, LOW)
stop_stepper(h, name, exc) ==
    IF HwInactive(h) THEN h
    ELSE IF name \notin h.pwms THEN h
    ELSE IF exc = 1 THEN gpio_fallback(Drv(h, 1))
    ELSE IF exc = 2 THEN gpio_fallback([Drv(h, 2) EXCEPT !.pwm_on[name] = FALSE])
    ELSE [Drv(h, 2) EXCEPT !.pwm_on[name] = FALSE]

\* cleanup as it would be if it re-armed the GPIO domain
cleanup_Rearms(h, exc) ==
    IF HwInactive(h) THEN [h EXCEPT !.sim_gpio = h.sim]
    ELSE IF exc = 1 THEN Drv(h, 1)
    ELSE [Drv(h, 1) EXCEPT !.out = [p \in Pins |-> "IN"]]

\* gpio.cleanup() returns every channel to an input; its exception is dropped
cleanup(h, exc) ==
    IF HwInactive(h) THEN h
    ELSE IF exc = 1 THEN Drv(h, 1)
    ELSE [Drv(h, 1) EXCEPT !.out = [p \in Pins |-> "IN"]]

\* read_temp_ds18b20(index): reading is a temperature, or ReadFail for a file that
\* cannot be read or parsed.  Returns the object, the value and whether the
\* warning was printed.
FallbackTemp == 400
ReadFail == Nil - 1

read_temp_ds18b20(h, index, reading) ==
    IF h.sim \/ h.ds_devices = 0
    THEN [hw |-> h, value |-> IF reading = ReadFail THEN FallbackTemp ELSE reading,
          logged |-> FALSE]
    ELSE IF reading # ReadFail
    THEN [hw |-> [h EXCEPT !.last_temp_error = FALSE], value |-> reading,
          logged |-> FALSE]
    ELSE [hw |-> [h EXCEPT !.last_temp_error = FALSE], value |-> FallbackTemp,
          logged |-> ~h.last_temp_error]

\* ------------------------------------------------------------------------
\* ADS1115Reader and the module-level bus handle _ADS_I2C
\*   bus = [handle, deinits]: the handle and how often deinit() was called
\* ------------------------------------------------------------------------
BusNew == [handle |-> None, deinits |-> 0]

\* ADS1115Reader.__init__ / _init_hw.  outcome: "ok", "import" (a library is
\* missing), "bus" (busio.I2C raises), "ads" (ADS1115 / AnalogIn raises).
\* Returns the reader and the bus.
ReaderNew(simulador, outcome, bus) ==
    IF simulador
    THEN [reader |-> [sim |-> TRUE, sim_reason |-> "Forzado por variable de entorno",
                      ads |-> None, chan |-> None],
          bus |-> bus]
    ELSE IF outcome = "import"
    THEN [reader |-> [sim |-> TRUE, sim_reason |-> "Fallback a simulador",
                      ads |-> None, chan |-> None],
          bus |-> bus]
    ELSE IF outcome = "bus" /\ bus.handle = None
    THEN [reader |-> [sim |-> TRUE, sim_reason |-> "Fallback a simulador",
                      ads |-> None, chan |-> None],
          bus |-> bus]
    ELSE LET bus1 == [bus EXCEPT !.handle = "I2C"]
         IN  IF outcome = "ads"
             THEN [reader |-> [sim |-> TRUE, sim_reason |-> "Fallback a simulador",
                               ads |-> None, chan |-> None],
                   bus |-> bus1]
             ELSE [reader |-> [sim |-> FALSE, sim_reason |-> "",
                               ads |-> "ADS", chan |-> "AnalogIn"],
                   bus |-> bus1]

\* read_voltage(): which source yields the voltage
read_voltage(r) == IF r.sim \/ r.chan = None THEN "simulated" ELSE "channel"

\* close() as it would be without the try around deinit(): the exception
\* leaves close() before _ADS_I2C = None
reader_close_NoCatch(r, bus, exc) ==
    [reader |-> [r EXCEPT !.chan = None, !.ads = None],
     bus |-> IF bus.handle # None
             THEN [handle |-> IF exc THEN bus.handle ELSE None,
                   deinits |-> bus.deinits + 1]
             ELSE bus,
     raised |-> bus.handle # None /\ exc]

\* close(); exc: deinit() raises.  The exception is dropped and the handle
\* forgotten all the same.
reader_close(r, bus, exc) ==
    [reader |-> [r EXCEPT !.chan = None, !.ads = None],
     bus |-> IF bus.handle # None
             THEN [handle |-> None, deinits |-> bus.deinits + 1]
             ELSE bus,
     raised |-> FALSE]

\* ------------------------------------------------------------------------
\* FermenterPanel.  The handlers act on a world record
\*   w = [hw, ferm, calls, fired, pump_cmd, fail]
\*     hw       the shared Hardware object
\*     ferm     panel name -> panel fields
\*     calls    the Hardware methods the running handler has called, in order
\*     fired    panel name -> the running handler opened a dosing window
\*     pump_cmd panel name -> the last pump method called for it
\*     fail     the driver statement of the handler, counted from its first, that
\*              raises (0: none does)
\* ------------------------------------------------------------------------
SpInit == 400
BandInit == 10
BandFloor == 1

PanelNew(t0) ==
    [t |-> t0, sp |-> SpInit, band |-> BandInit, manual_mode |-> FALSE,
     cold_in |-> FALSE, hot_in |-> FALSE,
     cal_sp |-> << >>, cal_nut |-> << >>,
     nut_running_until |-> Nil, nut_led_on |-> FALSE, last_min |-> << >>,
     manual_nut_on |-> FALSE]

\* which of the n driver statements of the method about to run raises
Exc(w, n) ==
    IF w.fail > w.hw.drv /\ w.fail <= w.hw.drv + n THEN w.fail - w.hw.drv ELSE 0

Call(fn, a) == [fn |-> fn, arg |-> a]

hw_setup_relay(w, pin) ==
    [w EXCEPT !.hw = setup_relay(w.hw, pin, Exc(w, 2)),
              !.calls = Append(@, Call("setup_relay", pin))]

hw_setup_stepper(w, name) ==
    [w EXCEPT !.hw = setup_stepper(w.hw, name, Exc(w, 4)),
              !.calls = Append(@, Call("setup_stepper", name))]

hw_relay_on(w, pin) ==
    [w EXCEPT !.hw = relay_on(w.hw, pin, Exc(w, 1)),
              !.calls = Append(@, Call("relay_on", pin))]

hw_relay_off(w, pin) ==
    [w EXCEPT !.hw = relay_off(w.hw, pin, Exc(w, 1)),
              !.calls = Append(@, Call("relay_off", pin))]

hw_start_stepper(w, name) ==
    [w EXCEPT !.hw = start_stepper(w.hw, name, Exc(w, 2)),
              !.calls = Append(@, Call("start_stepper", name)),
              !.pump_cmd[name] = "start"]

hw_stop_stepper(w, name) ==
    [w EXCEPT !.hw = stop_stepper(w.hw, name, Exc(w, 2)),
              !.calls = Append(@, Call("stop_stepper", name)),
              !.pump_cmd[name] = "stop"]

\* FermenterPanel.__init__: the actuator set-up of one panel
panel_setup(w, v) ==
    IF w.hw.sim THEN w
    ELSE hw_setup_stepper(
             hw_setup_relay(hw_setup_relay(w, RELAY_PINS[v].cold), RELAY_PINS[v].hot),
             v)

\* _apply_relays as it would be if it only switched relays on
apply_relays_OnOnly(w, v) ==
    LET w1 == IF w.ferm[v].cold_in THEN hw_relay_on(w, RELAY_PINS[v].cold) ELSE w
    IN  IF w.ferm[v].hot_in THEN hw_relay_on(w1, RELAY_PINS[v].hot) ELSE w1

apply_relays(w, v) ==
    LET w1 == IF w.ferm[v].cold_in THEN hw_relay_on(w, RELAY_PINS[v].cold)
              ELSE hw_relay_off(w, RELAY_PINS[v].cold)
    IN  IF w.ferm[v].hot_in THEN hw_relay_on(w1, RELAY_PINS[v].hot)
        ELSE hw_relay_off(w1, RELAY_PINS[v].hot)

can_force(w, v) == w.ferm[v].manual_mode

forzar_frio(w, v) ==
    IF ~can_force(w, v) THEN w
    ELSE apply_relays([w EXCEPT !.ferm[v].cold_in = TRUE, !.ferm[v].hot_in = FALSE], v)

forzar_caliente(w, v) ==
    IF ~can_force(w, v) THEN w
    ELSE apply_relays([w EXCEPT !.ferm[v].hot_in = TRUE, !.ferm[v].cold_in = FALSE], v)

cerrar_todo(w, v) ==
    apply_relays([w EXCEPT !.ferm[v].cold_in = FALSE, !.ferm[v].hot_in = FALSE], v)

apply_nutricion_state(w, v, should_run) ==
    LET w1 == IF should_run /\ ~w.ferm[v].nut_led_on THEN hw_start_stepper(w, v)
              ELSE IF ~should_run /\ w.ferm[v].nut_led_on THEN hw_stop_stepper(w, v)
              ELSE w
    IN  [w1 EXCEPT !.ferm[v].nut_led_on = should_run]

stop_all(w, v) ==
    LET w1 == [w EXCEPT !.ferm[v].manual_mode = TRUE,
                        !.ferm[v].cold_in = FALSE,
                        !.ferm[v].hot_in = FALSE,
                        !.ferm[v].nut_running_until = Nil,
                        !.ferm[v].manual_nut_on = FALSE]
    IN  apply_relays(apply_nutricion_state(w1, v, FALSE), v)

\* the window test as it would be with an inclusive end
ScheduleActive_Inclusive(p, tnow) ==
    p.nut_running_until # Nil /\ tnow <= p.nut_running_until

\* bool(self.nut_running_until and tnow < self.nut_running_until)
ScheduleActive(p, tnow) ==
    p.nut_running_until # Nil /\ tnow < p.nut_running_until

\* toggle_manual_nut as it would be if it followed the manual flag alone
toggle_manual_nut_ManualOnly(w, v, tnow) ==
    LET w1 == [w EXCEPT !.ferm[v].manual_nut_on = ~@]
    IN  apply_nutricion_state(w1, v, w1.ferm[v].manual_nut_on)

toggle_manual_nut(w, v, tnow) ==
    LET w1 == [w EXCEPT !.ferm[v].manual_nut_on = ~@]
    IN  apply_nutricion_state(w1, v,
            ScheduleActive(w1.ferm[v], tnow) \/ w1.ferm[v].manual_nut_on)

\* the sum as it would be over every duration, negative ones included
RECURSIVE dur_total_Signed(_)
dur_total_Signed(doses) ==
    IF doses = << >> THEN 0
    ELSE Head(doses) + dur_total_Signed(Tail(doses))

\* sum(float(d) for d in doses if float(d) > 0)
RECURSIVE dur_total(_)
dur_total(doses) ==
    IF doses = << >> THEN 0
    ELSE (IF Head(doses) > 0 THEN Head(doses) ELSE 0) + dur_total(Tail(doses))

\* _simulate_temp: the simulated temperature moves by a drift plus uniform noise
\* scaled by the elapsed time and is clamped to -5..40 degC; any temperature of
\* that range can come out, so the result is the value drawn for this tick.
simulate_temp(t, drawn) ==
    IF drawn < -100 THEN -100 ELSE IF drawn > 800 THEN 800 ELSE drawn

\* the band as it would be without its floor
EffectiveBand_NoFloor(band) == band

\* max(0.05, float(self.band.get()))
EffectiveBand(band) == IF band > BandFloor THEN band ELSE BandFloor

\* the setpoint lookup as it would be without the manual-mode test
up_setpoint_Always(w, v, tnow) ==
    LET sp_cal == sp_from_date_calendar(w.ferm[v].cal_sp, tnow, Nil)
    IN  IF sp_cal # Nil THEN [w EXCEPT !.ferm[v].sp = sp_cal] ELSE w

\* update_process, first part: setpoint from the calendar (skipped in manual mode)
up_setpoint(w, v, tnow) ==
    IF w.ferm[v].manual_mode THEN w
    ELSE LET sp_cal == sp_from_date_calendar(w.ferm[v].cal_sp, tnow, Nil)
         IN  IF sp_cal # Nil THEN [w EXCEPT !.ferm[v].sp = sp_cal] ELSE w

\* the guard as it would be without the last-minute record
NewMinute_Always(p, tnow) == TRUE

\* the guard of the once-per-minute block
NewMinute(p, tnow) == p.last_min # strftime_YmdHM(tnow)

\* the dosing part as it would be without the test dur_total > 0
up_dosing_NoPositiveTest(w, v, tnow) ==
    LET w1 == IF NewMinute(w.ferm[v], tnow)
              THEN LET doses == nut_fire_for_minute(w.ferm[v].cal_nut, tnow)
                       total == dur_total(doses)
                       wf == IF doses # << >>
                             THEN hw_start_stepper(
                                      [w EXCEPT !.ferm[v].nut_running_until = tnow + total,
                                                !.fired[v] = TRUE],
                                      v)
                             ELSE w
                   IN  [wf EXCEPT !.ferm[v].last_min = strftime_YmdHM(tnow)]
              ELSE w
        active == ScheduleActive(w1.ferm[v], tnow)
        w2 == IF active THEN w1 ELSE [w1 EXCEPT !.ferm[v].nut_running_until = Nil]
    IN  apply_nutricion_state(w2, v, active \/ w2.ferm[v].manual_nut_on)

\* update_process, second part: dosing events of the minute, window, pump
up_dosing(w, v, tnow) ==
    LET w1 == IF NewMinute(w.ferm[v], tnow)
              THEN LET doses == nut_fire_for_minute(w.ferm[v].cal_nut, tnow)
                       total == dur_total(doses)
                       wf == IF doses # << >> /\ total > 0
                             THEN hw_start_stepper(
                                      [w EXCEPT !.ferm[v].nut_running_until = tnow + total,
                                                !.fired[v] = TRUE],
                                      v)
                             ELSE w
                   IN  [wf EXCEPT !.ferm[v].last_min = strftime_YmdHM(tnow)]
              ELSE w
        active == ScheduleActive(w1.ferm[v], tnow)
        w2 == IF active THEN w1 ELSE [w1 EXCEPT !.ferm[v].nut_running_until = Nil]
    IN  apply_nutricion_state(w2, v, active \/ w2.ferm[v].manual_nut_on)

\* update_process, third part: temperature acquisition
up_temperature(w, v, reading) ==
    IF w.hw.sim
    THEN [w EXCEPT !.ferm[v].t =
              IF reading = ReadFail THEN @ ELSE simulate_temp(@, reading)]
    ELSE LET r == read_temp_ds18b20(w.hw, VesselIndex(v), reading)
         IN  [w EXCEPT !.hw = r.hw, !.ferm[v].t = r.value]

\* the hysteresis relay as it would be with strict thresholds
up_thermal_Strict(w, v) ==
    IF w.ferm[v].manual_mode THEN w
    ELSE LET p == w.ferm[v]
             sp == p.sp
             band == EffectiveBand(p.band)
             cold == IF p.cold_in
                     THEN (IF p.t < sp - band THEN FALSE ELSE TRUE)
                     ELSE (IF p.t > sp + band THEN TRUE ELSE FALSE)
             hot == IF p.hot_in
                    THEN (IF p.t > sp + band THEN FALSE ELSE TRUE)
                    ELSE (IF p.t < sp - band THEN TRUE ELSE FALSE)
             w1 == [w EXCEPT !.ferm[v].cold_in = cold, !.ferm[v].hot_in = hot]
             w2 == IF ~cold /\ ~hot THEN cerrar_todo(w1, v) ELSE w1
         IN  apply_relays(w2, v)

\* the hysteresis relay as it would be if an actuator were released at the
\* setpoint, returning to rest inside the band
up_thermal_RestAtSetpoint(w, v) ==
    IF w.ferm[v].manual_mode THEN w
    ELSE LET p == w.ferm[v]
             sp == p.sp
             band == EffectiveBand(p.band)
             cold == IF p.cold_in
                     THEN (IF p.t <= sp THEN FALSE ELSE TRUE)
                     ELSE (IF p.t >= sp + band THEN TRUE ELSE FALSE)
             hot == IF p.hot_in
                    THEN (IF p.t >= sp THEN FALSE ELSE TRUE)
                    ELSE (IF p.t <= sp - band THEN TRUE ELSE FALSE)
             w1 == [w EXCEPT !.ferm[v].cold_in = cold, !.ferm[v].hot_in = hot]
             w2 == IF ~cold /\ ~hot THEN cerrar_todo(w1, v) ELSE w1
         IN  apply_relays(w2, v)

\* update_process, fourth part: the hysteresis relay (skipped in manual mode)
up_thermal(w, v) ==
    IF w.ferm[v].manual_mode THEN w
    ELSE LET p == w.ferm[v]
             sp == p.sp
             band == EffectiveBand(p.band)
             cold == IF p.cold_in
                     THEN (IF p.t <= sp - band THEN FALSE ELSE TRUE)
                     ELSE (IF p.t >= sp + band THEN TRUE ELSE FALSE)
             hot == IF p.hot_in
                    THEN (IF p.t >= sp + band THEN FALSE ELSE TRUE)
                    ELSE (IF p.t <= sp - band THEN TRUE ELSE FALSE)
             w1 == [w EXCEPT !.ferm[v].cold_in = cold, !.ferm[v].hot_in = hot]
             w2 == IF ~cold /\ ~hot THEN cerrar_todo(w1, v) ELSE w1
         IN  apply_relays(w2, v)

\* a step of a handler, recorded in the order the steps are reached
Mark(w, step, v) == [w EXCEPT !.steps = Append(@, << step, v >>)]

\* update_process up to the log write
update_process(w, v, tnow, reading) ==
    LET w1 == up_setpoint(Mark(w, "setpoint", v), v, tnow)
        w2 == up_dosing(Mark(w1, "dosing", v), v, tnow)
        w3 == up_temperature(Mark(w2, "temperature", v), v, reading)
    IN  up_thermal(Mark(w3, "thermal", v), v)

\* App._tick: every panel in turn
RECURSIVE tick_from(_, _, _, _)
tick_from(w, i, tnow, readings) ==
    IF i > Len(Ferms) THEN w
    ELSE tick_from(update_process(w, Ferms[i], tnow, readings[Ferms[i]]), i + 1,
                   tnow, readings)

\* App.cerrar_todo_global: stop_all of every panel in turn
RECURSIVE stop_all_from(_, _)
stop_all_from(w, i) ==
    IF i > Len(Ferms) THEN w
    ELSE stop_all_from(stop_all(w, Ferms[i]), i + 1)

\* App.__init__: the panels are built in turn
RECURSIVE setup_from(_, _)
setup_from(w, i) ==
    IF i > Len(Ferms) THEN w
    ELSE setup_from(panel_setup(w, Ferms[i]), i + 1)

\* App.__init__: one ADS1115Reader per panel, in turn; rb = [readers, bus]
RECURSIVE readers_from(_, _, _, _)
readers_from(rb, i, simulador, outcomes) ==
    IF i > Len(Ferms) THEN rb
    ELSE LET r == ReaderNew(simulador, outcomes[Ferms[i]], rb.bus)
         IN  readers_from([readers |-> [rb.readers EXCEPT ![Ferms[i]] = r.reader],
                           bus |-> r.bus],
                          i + 1, simulador, outcomes)

\* ------------------------------------------------------------------------
\* Log files.  A file is [exists, rows]; a row is a header or a data row with
\* its field names.  The handlers that write carry, in the world record,
\*   files, csv, flow, loop, steps   the state they act on
\*   io = [sink, v, fault]           the file operation of the handler that fails
\*   exc                             an exception has left the running handler
\* ------------------------------------------------------------------------
FileAbsent == [exists |-> FALSE, rows |-> << >>]
FileEmpty == [exists |-> TRUE, rows |-> << >>]

Row(kind, fields) == [kind |-> kind, fields |-> fields]

ProcFile(v) == << "proc", v >>
Co2File(v) == << "co2", v >>
BackupFile == << "backup", "" >>
Files == {ProcFile(v) : v \in Vessels} \cup {Co2File(v) : v \in Vessels} \cup {BackupFile}

\* the keys of the row dicts
ProcFields ==
    << "timestamp", "fermentador", "T", "SP", "banda", "cold", "hot",
       "nutricion_activa", "freq_nut" >>
Co2FieldsApp == << "timestamp", "fermentador", "flow_sccm", "status" >>
Co2FieldsCO2App ==
    << "timestamp", "fermentador", "flow_sccm", "rate_g_l_h", "current_ma",
       "voltage_v", "status" >>

NoIo == [sink |-> "none", v |-> "", fault |-> "none"]

\* the fault, if any, of the write of panel v to the sink
FaultAt(w, sink, v) ==
    IF w.io.sink = sink /\ w.io.v = v THEN w.io.fault ELSE "none"

\* os.makedirs(...); with open(path, "a") as f: DictWriter; writeheader(); writerow()
\* fault: "mkdir" and "open" raise before the file is touched; "write" raises
\* after open() has created the file and nothing reaches it; "write_row" raises
\* after the header has reached it.
append_rows(file, fields, header, fault) ==
    LET head == IF header THEN << Row("H", fields) >> ELSE << >>
    IN  IF fault \in {"mkdir", "open"} THEN file
        ELSE IF fault = "write" THEN [file EXCEPT !.exists = TRUE]
        ELSE IF fault = "write_row"
        THEN [exists |-> TRUE, rows |-> file.rows \o head]
        ELSE [exists |-> TRUE, rows |-> file.rows \o head \o << Row("D", fields) >>]

\* App.get_backup_path: os.makedirs is outside any try
get_backup_path(w, v) ==
    IF FaultAt(w, "backup", v) = "mkdir" THEN [w EXCEPT !.exc = TRUE] ELSE w

\* FermenterPanel._csv_write_row
csv_write_row(w, v) ==
    LET pf == w.files[ProcFile(v)]
        w1 == IF w.csv[v].running
              THEN [w EXCEPT !.files[ProcFile(v)] =
                       append_rows(pf, ProcFields, ~pf.exists, FaultAt(w, "proc", v))]
              ELSE w
        w2 == get_backup_path(w1, v)
    IN  IF w2.exc THEN w2
        ELSE LET bf == w2.files[BackupFile]
                 write_header == ~bf.exists \/ bf.rows = << >>
             IN  [w2 EXCEPT !.files[BackupFile] =
                     append_rows(bf, ProcFields, write_header, FaultAt(w, "backup", v))]

\* csv_start / csv_pause / csv_restart and their CO2 counterparts; removed says
\* whether os.remove succeeded
csv_start(w, v) == [w EXCEPT !.csv[v].running = TRUE]
csv_pause(w, v) == [w EXCEPT !.csv[v].running = FALSE]
csv_restart(w, v, removed) ==
    [w EXCEPT !.csv[v].running = FALSE,
              !.files[ProcFile(v)] = IF @.exists /\ removed THEN FileAbsent ELSE @]

co2_csv_start(w, v) == [w EXCEPT !.csv[v].co2_running = TRUE]
co2_csv_pause(w, v) == [w EXCEPT !.csv[v].co2_running = FALSE]
co2_csv_restart(w, v, removed) ==
    [w EXCEPT !.csv[v].co2_running = FALSE,
              !.files[Co2File(v)] = IF @.exists /\ removed THEN FileAbsent ELSE @]

\* _co2_csv_write_row of App (TestGUI_3F_v5_cl.py) and of CO2App (TestCO2.py):
\* the programs differ in the row they build
Co2Fields(prog) == IF prog = "CO2App" THEN Co2FieldsCO2App ELSE Co2FieldsApp

co2_csv_write_row(w, v) ==
    IF ~w.csv[v].co2_running THEN w
    ELSE LET cf == w.files[Co2File(v)]
         IN  [w EXCEPT !.files[Co2File(v)] =
                 append_rows(cf, Co2Fields(w.loop.prog), ~cf.exists,
                             FaultAt(w, "co2", v))]

\* ------------------------------------------------------------------------
\* Float arithmetic and the 4-20 mA conversions.  A float is kept as a whole
\* number of 1/Unit; every operation rounds its exact result to Prec significant
\* bits, ties to even, as Python's float does with 53 bits.
\* ------------------------------------------------------------------------
\* significant bits of a float
Prec == 10
\* binary places below one: the smallest step of a float is 1/2^Frac
Frac == 7

Unit == 2 ^ Frac

Abs(n) == IF n < 0 THEN 0 - n ELSE n

\* n/d rounded to the nearest whole number, ties to the even one (d > 0)
NearestEven(n, d) ==
    LET fl == n \div d
        rem == n - fl * d
    IN  IF 2 * rem < d THEN fl
        ELSE IF 2 * rem > d THEN fl + 1
        ELSE IF fl % 2 = 0 THEN fl ELSE fl + 1

\* the step between neighbouring floats at the size of num/den
RECURSIVE Spacing(_, _, _)
Spacing(num, den, q) ==
    IF Abs(num) >= (2 ^ Prec) * q * den THEN Spacing(num, den, 2 * q) ELSE q

\* the float nearest to num/den
RoundRat(num, den) ==
    LET q == Spacing(num, den, 1)
    IN  q * NearestEven(num, q * den)

\* the float a decimal literal num/den denotes: 3.8 is Float(38, 10)
Float(num, den) == RoundRat(num * Unit, den)

fadd(a, b) == RoundRat(a + b, 1)
fsub(a, b) == RoundRat(a - b, 1)
fmul(a, b) == RoundRat(a * b, Unit)
fdiv(a, b) == RoundRat(a * Unit, b)

fmax(a, b) == IF b > a THEN b ELSE a
fmin(a, b) == IF b < a THEN b ELSE a

\* current_to_flow_sccm without the clamp
current_to_flow_sccm_NoClamp(current_ma, FLOW_MIN_SCCM, FLOW_MAX_SCCM) ==
    IF FLOW_MAX_SCCM <= FLOW_MIN_SCCM THEN Float(0, 1)
    ELSE LET span == Float(16, 1)
         IN  fadd(FLOW_MIN_SCCM,
                  fdiv(fmul(fsub(current_ma, Float(4, 1)),
                            fsub(FLOW_MAX_SCCM, FLOW_MIN_SCCM)),
                       span))

\* current_to_flow_sccm without the test of the limits
current_to_flow_sccm_NoGuard(current_ma, FLOW_MIN_SCCM, FLOW_MAX_SCCM) ==
    LET clamped == fmax(Float(4, 1), fmin(Float(20, 1), current_ma))
        span == Float(16, 1)
    IN  fadd(FLOW_MIN_SCCM,
             fdiv(fmul(fsub(clamped, Float(4, 1)),
                       fsub(FLOW_MAX_SCCM, FLOW_MIN_SCCM)),
                  span))

\* current_to_flow_sccm (TestGUI_3F_v5_cl.py and TestCO2.py); the two limits
\* are the module constants read from the environment
current_to_flow_sccm(current_ma, FLOW_MIN_SCCM, FLOW_MAX_SCCM) ==
    IF FLOW_MAX_SCCM <= FLOW_MIN_SCCM THEN Float(0, 1)
    ELSE LET clamped == fmax(Float(4, 1), fmin(Float(20, 1), current_ma))
             span == Float(16, 1)
         IN  fadd(FLOW_MIN_SCCM,
                  fdiv(fmul(fsub(clamped, Float(4, 1)),
                            fsub(FLOW_MAX_SCCM, FLOW_MIN_SCCM)),
                       span))

\* current_to_flow_m3h (testing.py)
current_to_flow_m3h(current_ma, FLOW_MIN_M3H, FLOW_MAX_M3H) ==
    IF FLOW_MAX_M3H <= FLOW_MIN_M3H THEN Float(0, 1)
    ELSE LET clamped == fmax(Float(4, 1), fmin(Float(20, 1), current_ma))
             span == Float(16, 1)
         IN  fadd(FLOW_MIN_M3H,
                  fdiv(fmul(fsub(clamped, Float(4, 1)),
                            fsub(FLOW_MAX_M3H, FLOW_MIN_M3H)),
                       span))

\* the status of _flow_take_sample from the current it measured
flow_status(current_ma) ==
    IF current_ma < Float(38, 10) THEN "Bajo rango"
    ELSE IF current_ma > Float(205, 10) THEN "Alto rango"
    ELSE "OK"

\* the flow and the status of _flow_take_sample as they would be if both were
\* taken from the clamped current
measure_ClampedStatus(current_ma, FLOW_MIN_SCCM, FLOW_MAX_SCCM) ==
    [flow |-> current_to_flow_sccm(current_ma, FLOW_MIN_SCCM, FLOW_MAX_SCCM),
     current_ma |-> current_ma,
     status |-> flow_status(fmax(Float(4, 1), fmin(Float(20, 1), current_ma)))]

\* _flow_take_sample from the conversion of the voltage to the status: the
\* fields of the sample besides ts and voltage
measure(current_ma, FLOW_MIN_SCCM, FLOW_MAX_SCCM) ==
    [flow |-> current_to_flow_sccm(current_ma, FLOW_MIN_SCCM, FLOW_MAX_SCCM),
     current_ma |-> current_ma,
     status |-> flow_status(current_ma)]

\* ------------------------------------------------------------------------
\* Flow sampling.  A channel is [samples, next, period]; a sample is
\* [ts, ma]: its timestamp and the loop current read (the flow, the voltage
\* and the status are functions of it).  rd is the current read, or ReadFail
\* when read_voltage raises.
\* ------------------------------------------------------------------------
\* MAX_FLOW_HISTORY_HOURS = 24 * 21, in seconds
Horizon == 24 * 21 * 3600

\* period = 1 if reader.sim else 10   (SAMPLE_PERIOD_SEC unset)
PeriodOf(r) == IF r.sim THEN 1 ELSE 10

ChannelNew(r) == [samples |-> << >>, next |-> Nil, period |-> PeriodOf(r)]

Sample(ts, ma) == [ts |-> ts, ma |-> ma]

\* the pruning as it would be with a strict comparison
Retained_Strict(samples, cutoff) ==
    LET Keeps(x) == x.ts > cutoff
    IN  SelectSeq(samples, Keeps)

\* [row for row in samples if row[0] >= cutoff]
Retained(samples, cutoff) ==
    LET Keeps(x) == x.ts >= cutoff
    IN  SelectSeq(samples, Keeps)

\* App._flow_take_sample / CO2App._flow_take_sample
flow_take_sample(w, v, ts, rd) ==
    IF rd = ReadFail
    THEN [w EXCEPT !.flow[v].next = ts + w.flow[v].period]
    ELSE LET w1 == [w EXCEPT !.flow[v].samples =
                        Retained(Append(@, Sample(ts, rd)), ts - Horizon)]
             w2 == co2_csv_write_row(w1, v)
         IN  [w2 EXCEPT !.flow[v].next = ts + w.flow[v].period]

\* the due test as it would be if it passed one period early
Due_Early(ch, ts) == ch.next = Nil \/ ts >= ch.next - ch.period

\* the due test of _flow_tick and FlowApp._schedule_loop
Due(ch, ts) == ch.next = Nil \/ ts >= ch.next

\* App._flow_tick / CO2App._flow_tick over the channels names[i..]
RECURSIVE flow_tick_from(_, _, _, _, _)
flow_tick_from(w, names, i, ts, rds) ==
    IF i > Len(names) THEN w
    ELSE LET v == names[i]
             w1 == IF Due(w.flow[v], ts) THEN flow_take_sample(w, v, ts, rds[v])
                   ELSE w
         IN  flow_tick_from(w1, names, i + 1, ts, rds)

\* the channels of a program: App has every panel's, CO2App and FlowApp one
Channels(prog) == IF prog = "App" THEN Ferms ELSE << Ferms[1] >>

flow_tick(w, ts, rds) ==
    flow_tick_from(Mark(w, "flow", ""), Channels(w.loop.prog), 1, ts, rds)

\* FlowApp._take_sample (testing.py): read_voltage is called outside any try;
\* _prune_samples returns at once while PLOT_WINDOW_HOURS is 0 (its default)
take_sample(w, v, ts, rd) ==
    IF rd = ReadFail THEN [w EXCEPT !.exc = TRUE]
    ELSE [w EXCEPT !.flow[v].samples = Append(@, Sample(ts, rd)),
                   !.flow[v].next = ts + w.flow[v].period]

\* self.after(1000, ...): one more job pending
after(w) == [w EXCEPT !.loop.pending = @ + 1]

\* FlowApp._schedule_loop (testing.py); tcheck is the now() of the due test, ts
\* the later now() of _take_sample
schedule_loop(w, tcheck, ts, rd) ==
    IF w.loop.closing THEN w
    ELSE LET v == Ferms[1]
             w1 == IF Due(w.flow[v], tcheck) THEN take_sample(w, v, ts, rd) ELSE w
         IN  IF w1.exc THEN w1 ELSE after(w1)

\* CO2App.refresh (TestCO2.py)
refresh(w, ts, rds) == after(flow_tick(w, ts, rds))

\* ------------------------------------------------------------------------
\* The timer callback and the shutdown of App, whole
\* ------------------------------------------------------------------------
\* FermenterPanel.update_process, whole: control, then _csv_write_row
panel_update(w, v, tnow, reading) ==
    csv_write_row(Mark(update_process(w, v, tnow, reading), "log", v), v)

\* for f in self.ferms: f.update_process()  -- an exception ends the loop
RECURSIVE panels_from(_, _, _, _)
panels_from(w, i, tnow, readings) ==
    IF i > Len(Ferms) \/ w.exc THEN w
    ELSE panels_from(panel_update(w, Ferms[i], tnow, readings[Ferms[i]]), i + 1,
                     tnow, readings)

\* _tick as it would be with the flow sampling ahead of the panels
app_tick_FlowFirst(w, tnow, readings, rds) ==
    IF w.loop.closing THEN w
    ELSE LET w1 == panels_from(flow_tick(w, tnow, rds), 1, tnow, readings)
         IN  IF w1.exc THEN w1 ELSE after(w1)

\* App._tick
app_tick(w, tnow, readings, rds) ==
    IF w.loop.closing THEN w
    ELSE LET w1 == panels_from(w, 1, tnow, readings)
         IN  IF w1.exc THEN w1 ELSE after(flow_tick(w1, tnow, rds))

\* for reader in self.flow_readers.values(): reader.close(), each inside a try
\* that drops what close() raises
RECURSIVE close_from(_, _)
close_from(w, i) ==
    IF i > Len(Ferms) THEN w
    ELSE LET v == Ferms[i]
             r == reader_close(w.readers[v], w.bus, FaultAt(w, "bus", "") = "deinit")
         IN  close_from([Mark(w, "close", v) EXCEPT !.readers[v] = r.reader,
                                                   !.bus = r.bus],
                        i + 1)

RECURSIVE stop_from(_, _)
stop_from(w, i) ==
    IF i > Len(Ferms) THEN w
    ELSE stop_from(stop_all(Mark(w, "stop_all", Ferms[i]), Ferms[i]), i + 1)

\* on_close as the claimed order has it: the tick is cancelled with the other
\* jobs, after the actuators and the bus
on_close_CancelLast(w) ==
    LET w1 == [w EXCEPT !.loop.closing = TRUE]
        w3 == close_from(stop_from(w1, 1), 1)
        w4 == [Mark(w3, "cleanup", "") EXCEPT !.hw = cleanup(w3.hw, Exc(w3, 1))]
    IN  [Mark(Mark(w4, "cancel_jobs", ""), "destroy", "") EXCEPT !.loop.pending = 0]

\* App.on_close
on_close(w) ==
    LET w1 == [w EXCEPT !.loop.closing = TRUE]
        w2 == IF w1.loop.pending > 0
              THEN [Mark(w1, "cancel_tick", "") EXCEPT !.loop.pending = 0]
              ELSE w1
        w3 == close_from(stop_from(w2, 1), 1)
        w4 == [Mark(w3, "cleanup", "") EXCEPT !.hw = cleanup(w3.hw, Exc(w3, 1))]
    IN  Mark(Mark(w4, "cancel_jobs", ""), "destroy", "")

\* CO2App.on_close (TestCO2.py): the refresh job is cancelled, the readers are
\* closed, the window destroyed; closing records that shutdown has begun
co2_on_close(w) ==
    LET w1 == IF w.loop.pending > 0
              THEN [Mark(w, "cancel_tick", "") EXCEPT !.loop.pending = 0]
              ELSE w
        v == Ferms[1]
        r == reader_close(w1.readers[v], w1.bus, FaultAt(w1, "bus", "") = "deinit")
        w2 == [Mark(w1, "close", v) EXCEPT !.readers[v] = r.reader, !.bus = r.bus]
    IN  [Mark(w2, "destroy", "") EXCEPT !.loop.closing = TRUE]

\* FlowApp._on_close (testing.py)
flowapp_on_close(w) ==
    LET w1 == [w EXCEPT !.loop.closing = TRUE]
        w2 == IF w1.loop.pending > 0
              THEN [Mark(w1, "cancel_tick", "") EXCEPT !.loop.pending = 0]
              ELSE w1
    IN  Mark(w2, "destroy", "")

\* ------------------------------------------------------------------------
\* Bounds and the inputs drawn from them
\* ------------------------------------------------------------------------
\* seconds 08:00:00 .. 08:00:MaxSec of the event minute at which a handler can run
MaxSec == 2
\* the driver statements of one handler, counted from its first, that can raise
MaxFailAt == 3
\* events per day of the calendars handed to the pure calendar functions
MaxEvents == 2

Instants ==
    {At(0, 7, 59, 59)} \cup {At(0, 8, 0, sec) : sec \in 0..MaxSec}
        \cup {At(0, 8, 1, 0), At(1, 8, 0, 0)}

StartInstant == At(0, 7, 59, 59)

Temps == {390, 400, 410}
Readings == Temps \cup {ReadFail}
Setpoints == {400, 410}
Bands == {0, 10}
SimStartTemp == 430

\* time strings: "08:00", "08:01", "14:00", the unpadded "8:00" and "008:01"
HM(h, m) == << Digit(h \div 10), Digit(h % 10), Colon, Digit(m \div 10), Digit(m % 10) >>
HM1(h, m) == << Digit(h), Colon, Digit(m \div 10), Digit(m % 10) >>
\* a time string with a leading zero more, as "008:01": int() reads the hour 8
HM0(h, m) == << Digit(0) >> \o HM(h, m)

EmptyCal == << >>

SpCalendars ==
    { EmptyCal,
      (0 :> << Event(HM(8, 0), 410) >>),
      (0 :> << Event(HM(8, 1), 400), Event(HM1(8, 0), 410) >>),
      (0 :> << Event(HM0(8, 1), 410) >>) }

NutCalendars ==
    { EmptyCal,
      (0 :> << Event(HM(8, 0), 2) >>),
      (0 :> << Event(HM(8, 0), 1), Event(HM(8, 1), 2) >>),
      (0 :> << Event(HM1(8, 0), 2) >>) @@ (1 :> << Event(HM(8, 0), 61) >>),
      (0 :> << Event(HM(8, 0), 2), Event(HM(8, 1), 0) >>),
      (0 :> << Event(HM(8, 0), 1), Event(HM(8, 0), 0 - 1), Event(HM(8, 0), 2) >>),
      (0 :> << Event(HM(8, 0), 120), Event(HM(8, 1), 2) >>) }

\* a fail plan: 0 (no driver statement raises) or the statement that does
NoFail == 0 * MaxFailAt
FailPlans == 0..MaxFailAt

\* the panels the operator acts on and whose temperature varies; the others are
\* ticked with the rest temperature and left alone
Operated == {Ferms[1]}
RestTemp == FallbackTemp

ReadingsFor(r) == [v \in Vessels |-> IF v \in Operated THEN r ELSE RestTemp]

\* ------------------------------------------------------------------------
\* State
\* ------------------------------------------------------------------------
VARIABLES
    clock,      \* the latest value now() returned
    hw,         \* the Hardware object
    ferm,       \* panel name -> FermenterPanel fields
    readers,    \* panel name -> ADS1115Reader fields
    bus,        \* _ADS_I2C and the deinit() calls made on it
    op,         \* the handler that ran last
    calls,      \* the Hardware methods it called, in order
    fired,      \* panel name -> it opened a dosing window
    pump_cmd,   \* panel name -> the last pump method called ("none" at start)
    arg,        \* arguments of the pure function under test
    ret,        \* result of the last call under test
    files,      \* log file -> "absent" or the rows it holds
    csv,        \* panel name -> the recording flags of its two instrument files
    flow,       \* panel name -> flow channel: ring, next-due instant, period
    loop,       \* the timer loop: pending job, closing flag
    steps,      \* the steps the last handler went through, in order
    dlg         \* the calendar dialog, when one is open

\* logging, flow sampling, the timer loop and the calendar dialog
ext == << files, csv, flow, loop, steps, dlg >>

vars == << clock, hw, ferm, readers, bus, op, calls, fired, pump_cmd, arg, ret,
           files, csv, flow, loop, steps, dlg >>

NoneFired == [v \in Vessels |-> FALSE]

\* the world a handler starts in
World(plan) ==
    [hw |-> hw, ferm |-> ferm, calls |-> << >>,
     fired |-> NoneFired, pump_cmd |-> pump_cmd, fail |-> plan, steps |-> << >>]

Done(h) == [h EXCEPT !.drv = 0]

Commit(w, name) ==
    /\ hw' = Done(w.hw)
    /\ ferm' = w.ferm
    /\ calls' = w.calls
    /\ fired' = w.fired
    /\ pump_cmd' = w.pump_cmd
    /\ op' = name

\* a raise can only be drawn where a driver call can happen
PlanOk(plan) == plan # 0 => ~HwInactive(hw)
ReadingOk(r) == r = ReadFail => (~hw.sim /\ hw.ds_devices > 0)

\* ------------------------------------------------------------------------
\* Construction: App.__init__ up to its first _tick()
\* ------------------------------------------------------------------------
Constructed(simulador, gpio_ok, ndev, plan, r0, outcomes) ==
    LET h0 == HwNew(simulador, gpio_ok, ndev)
        rb == readers_from([readers |-> [v \in Vessels |-> << >>], bus |-> BusNew],
                           1, simulador, outcomes)
        t0 == IF h0.sim THEN SimStartTemp
              ELSE read_temp_ds18b20(h0, 0, r0).value
        w0 == [hw |-> h0, ferm |-> [v \in Vessels |-> PanelNew(t0)], calls |-> << >>,
               fired |-> NoneFired, pump_cmd |-> [v \in Vessels |-> "none"],
               fail |-> plan, steps |-> << >>]
        w1 == setup_from(w0, 1)
    IN  /\ clock = StartInstant
        /\ hw = Done(w1.hw)
        /\ ferm = w1.ferm
        /\ readers = rb.readers
        /\ bus = rb.bus
        /\ op = "init"
        /\ calls = w1.calls
        /\ fired = w1.fired
        /\ pump_cmd = w1.pump_cmd

AllOk == [v \in Vessels |-> "ok"]

\* _csv_running = False, co2_csv_running[name] = False
CsvNew == [running |-> FALSE, co2_running |-> FALSE]

\* the timer loop of a program before its first callback
LoopNew(prog) == [prog |-> prog, pending |-> 0, closing |-> FALSE]

\* what the build of App leaves besides the objects: no log file yet, nothing
\* recording, every flow channel empty and due at once
Fresh ==
    /\ files = [f \in Files |-> FileAbsent]
    /\ csv = [v \in Vessels |-> CsvNew]
    /\ flow = [v \in Vessels |-> ChannelNew(readers[v])]
    /\ loop = LoopNew("App")
    /\ steps = << >>
    /\ dlg = NoDialog

\* the panel specifications start from a fault-free build: simulator, real
\* hardware, or real sensors with the GPIO library missing
NoArg == [fn |-> "none"]
NoRet == [fn |-> "none"]

Init ==
    /\ \E simulador \in BOOLEAN, gpio_ok \in BOOLEAN :
           Constructed(simulador, gpio_ok, NFerms, NoFail, RestTemp, AllOk)
    /\ Fresh
    /\ arg = NoArg
    /\ ret = NoRet

\* ------------------------------------------------------------------------
\* Handlers
\* ------------------------------------------------------------------------
Keep == UNCHANGED << readers, bus, arg, ret, ext >>

Running == op # "init"

\* the timer callback App._tick; the first one runs inside App.__init__.
\* ts: the instants it can run at; rs: the readings the operated panels can get.
TickWith(ts, rs) ==
    \E tnow \in ts, r \in rs, plan \in FailPlans :
        /\ IF op = "init" THEN tnow = clock ELSE tnow > clock
        /\ PlanOk(plan)
        /\ ReadingOk(r)
        /\ clock' = tnow
        /\ Commit(tick_from(World(plan), 1, tnow, ReadingsFor(r)), "tick")
        /\ Keep

ForzarFrio(v) ==
    \E plan \in FailPlans :
        /\ Running
        /\ PlanOk(plan)
        /\ Commit(forzar_frio(World(plan), v), "forzar_frio")
        /\ UNCHANGED clock
        /\ Keep

ForzarCaliente(v) ==
    \E plan \in FailPlans :
        /\ Running
        /\ PlanOk(plan)
        /\ Commit(forzar_caliente(World(plan), v), "forzar_caliente")
        /\ UNCHANGED clock
        /\ Keep

CerrarTodo(v) ==
    \E plan \in FailPlans :
        /\ Running
        /\ PlanOk(plan)
        /\ Commit(cerrar_todo(World(plan), v), "cerrar_todo")
        /\ UNCHANGED clock
        /\ Keep

CerrarTodoGlobal ==
    \E plan \in FailPlans :
        /\ Running
        /\ PlanOk(plan)
        /\ Commit(stop_all_from(World(plan), 1), "stop_all")
        /\ UNCHANGED clock
        /\ Keep

ToggleManualNut(v) ==
    \E tnow \in Instants, plan \in FailPlans :
        /\ Running
        /\ tnow >= clock
        /\ PlanOk(plan)
        /\ clock' = tnow
        /\ Commit(toggle_manual_nut(World(plan), v, tnow), "toggle_manual_nut")
        /\ Keep

\* the "Modo manual" check box, the SP and Banda entries: Tk variables the
\* operator writes between handlers
SetManualMode(v) ==
    /\ Running
    /\ Commit([World(NoFail) EXCEPT !.ferm[v].manual_mode = ~@], "ui")
    /\ UNCHANGED clock
    /\ Keep

SetSp(v) ==
    \E x \in Setpoints :
        /\ Running
        /\ x # ferm[v].sp
        /\ Commit([World(NoFail) EXCEPT !.ferm[v].sp = x], "ui")
        /\ UNCHANGED clock
        /\ Keep

SetBand(v) ==
    \E x \in Bands :
        /\ Running
        /\ x # ferm[v].band
        /\ Commit([World(NoFail) EXCEPT !.ferm[v].band = x], "ui")
        /\ UNCHANGED clock
        /\ Keep

\* edit_cal_sp / edit_cal_nut when the dialog is accepted
EditCalSp(v) ==
    \E c \in SpCalendars :
        /\ Running
        /\ c # ferm[v].cal_sp
        /\ Commit([World(NoFail) EXCEPT !.ferm[v].cal_sp = c], "ui")
        /\ UNCHANGED clock
        /\ Keep

EditCalNut(v) ==
    \E c \in NutCalendars :
        /\ Running
        /\ c # ferm[v].cal_nut
        /\ Commit([World(NoFail) EXCEPT !.ferm[v].cal_nut = c], "ui")
        /\ UNCHANGED clock
        /\ Keep

\* ------------------------------------------------------------------------
\* SpecThermal: temperature control of the operated panel.  Every reading,
\* setpoint, band and setpoint calendar of the bounds; the dosing calendar
\* stays empty.
\* ------------------------------------------------------------------------
MinuteStarts == {tm \in Instants : tm % 60 = 0}

\* the readings of the thermal ticks: those of the other specifications and
\* 19.6 and 20.6 degC, just inside and just outside the band around 20 degC
ThermalReadings == Readings \cup {392, 412}

TickThermal == TickWith({StartInstant} \cup MinuteStarts, ThermalReadings)

NextThermal ==
    \/ TickThermal
    \/ CerrarTodoGlobal
    \/ \E v \in Operated : ForzarFrio(v)
    \/ \E v \in Operated : ForzarCaliente(v)
    \/ \E v \in Operated : CerrarTodo(v)
    \/ \E v \in Operated : SetManualMode(v)
    \/ \E v \in Operated : SetSp(v)
    \/ \E v \in Operated : SetBand(v)
    \/ \E v \in Operated : EditCalSp(v)

SpecThermal == Init /\ [][NextThermal]_vars

\* ------------------------------------------------------------------------
\* SpecDosing: nutrient dosing of the operated panel.  Every dosing calendar
\* of the bounds and the manual pump toggle; the temperature rests at the
\* setpoint.
\* ------------------------------------------------------------------------
TickDosing == TickWith(Instants, {RestTemp})

NextDosing ==
    \/ TickDosing
    \/ CerrarTodoGlobal
    \/ \E v \in Operated : ToggleManualNut(v)
    \/ \E v \in Operated : SetManualMode(v)
    \/ \E v \in Operated : EditCalNut(v)

SpecDosing == Init /\ [][NextDosing]_vars

\* ------------------------------------------------------------------------
\* SpecCal: the calendar functions applied to every calendar, instant and
\* default of the bounds.
\* ------------------------------------------------------------------------
EventTimes == {HM(8, 0), HM(14, 0), HM1(8, 0)}
EventValues == {400, 440}
Events == {Event(tstr, val) : tstr \in EventTimes, val \in EventValues}

EventLists == UNION {[1..n -> Events] : n \in 1..MaxEvents}

CalInputs ==
    {EmptyCal} \cup {(0 :> l) : l \in EventLists}
        \cup {(1 :> << e >>) : e \in Events}

TimeInputs ==
    {At(0, 7, 59, 0), At(0, 8, 0, 0), At(0, 13, 59, 30), At(0, 14, 0, 0), At(1, 8, 0, 59)}

DefaultInputs == {Nil, 380}

InitCal ==
    /\ Constructed(TRUE, FALSE, 0, NoFail, RestTemp, AllOk)
    /\ Fresh
    /\ \E cal \in CalInputs, tm \in TimeInputs, d \in DefaultInputs :
           arg = [fn |-> "calendar", events_dict |-> cal, t |-> tm, default |-> d]
    /\ ret = NoRet

Frozen == UNCHANGED << clock, hw, ferm, readers, bus, op, calls, fired, pump_cmd, ext >>

CallSpFromDateCalendar ==
    /\ ret' = [fn |-> "sp_from_date_calendar",
               value |-> sp_from_date_calendar(arg.events_dict, arg.t, arg.default)]
    /\ UNCHANGED arg
    /\ Frozen

CallNutFireForMinute ==
    /\ ret' = [fn |-> "nut_fire_for_minute",
               value |-> nut_fire_for_minute(arg.events_dict, arg.t)]
    /\ UNCHANGED arg
    /\ Frozen

NextCal ==
    \/ CallSpFromDateCalendar
    \/ CallNutFireForMinute

SpecCal == InitCal /\ [][NextCal]_vars

\* ------------------------------------------------------------------------
\* SpecHw: the Hardware object and the flow readers under any sequence of
\* method calls, from every outcome of the build (simulator forced, GPIO
\* library missing, a set-up call raising, probes found or not, each reader
\* bound or fallen back).
\* ------------------------------------------------------------------------
ReaderOutcomes == {"ok", "import", "bus", "ads"}

InitHw ==
    /\ \E simulador \in BOOLEAN, gpio_ok \in BOOLEAN, ndev \in {0, NFerms},
          plan \in FailPlans, outcomes \in [Vessels -> ReaderOutcomes] :
           /\ plan # 0 => (~simulador /\ gpio_ok)
           /\ Constructed(simulador, gpio_ok, ndev, plan, RestTemp, outcomes)
           /\ arg = [fn |-> "build", simulador |-> simulador, gpio_ok |-> gpio_ok,
                      ndev |-> ndev, plan |-> plan, outcomes |-> outcomes]
    /\ Fresh
    /\ ret = NoRet

\* a raise can be drawn only where the method reaches its try block
CanRaise(exc) == exc # 0 => ~HwInactive(hw)
CanRaiseStepper(name, exc) == exc # 0 => (~HwInactive(hw) /\ name \in hw.pwms)

HwFrame == UNCHANGED << clock, ferm, readers, bus, op, calls, fired, pump_cmd, arg, ext >>

\* the pins driven by the hardware specification: those of the operated panel
OperatedPins == UNION {{RELAY_PINS[v].cold, RELAY_PINS[v].hot} : v \in Operated}

HwRelayOn ==
    \E pin \in OperatedPins, exc \in 0..1 :
        /\ CanRaise(exc)
        /\ hw' = Done(relay_on(hw, pin, exc))
        /\ ret' = [fn |-> "relay_on", exc |-> exc]
        /\ HwFrame

HwRelayOff ==
    \E pin \in OperatedPins, exc \in 0..1 :
        /\ CanRaise(exc)
        /\ hw' = Done(relay_off(hw, pin, exc))
        /\ ret' = [fn |-> "relay_off", exc |-> exc]
        /\ HwFrame

HwStartStepper ==
    \E name \in Operated, exc \in 0..2 :
        /\ CanRaiseStepper(name, exc)
        /\ hw' = Done(start_stepper(hw, name, exc))
        /\ ret' = [fn |-> "start_stepper", exc |-> exc]
        /\ HwFrame

HwStopStepper ==
    \E name \in Operated, exc \in 0..2 :
        /\ CanRaiseStepper(name, exc)
        /\ hw' = Done(stop_stepper(hw, name, exc))
        /\ ret' = [fn |-> "stop_stepper", exc |-> exc]
        /\ HwFrame

HwCleanup ==
    \E exc \in 0..1 :
        /\ CanRaise(exc)
        /\ hw' = Done(cleanup(hw, exc))
        /\ ret' = [fn |-> "cleanup", exc |-> exc]
        /\ HwFrame

HwReadTemp ==
    \E v \in Operated, r \in {RestTemp, ReadFail} :
        /\ ReadingOk(r)
        /\ hw' = Done(read_temp_ds18b20(hw, VesselIndex(v), r).hw)
        /\ ret' = [fn |-> "read_temp_ds18b20", exc |-> 0]
        /\ HwFrame

ReaderRead(v) ==
    /\ ret' = [fn |-> "read_voltage", exc |-> 0, source |-> read_voltage(readers[v])]
    /\ UNCHANGED << clock, hw, ferm, readers, bus, op, calls, fired, pump_cmd, arg, ext >>

ReaderClose(v) ==
    \E exc \in BOOLEAN :
        /\ exc => bus.handle # None
        /\ LET r == reader_close(readers[v], bus, exc)
           IN  /\ readers' = [readers EXCEPT ![v] = r.reader]
               /\ bus' = r.bus
               /\ ret' = [fn |-> "close", exc |-> IF r.raised THEN 1 ELSE 0]
    /\ UNCHANGED << clock, hw, ferm, op, calls, fired, pump_cmd, arg, ext >>

NextHw ==
    \/ HwRelayOn
    \/ HwRelayOff
    \/ HwStartStepper
    \/ HwStopStepper
    \/ HwCleanup
    \/ HwReadTemp
    \/ \E v \in Vessels : ReaderRead(v)
    \/ \E v \in Vessels : ReaderClose(v)

SpecHw == InitHw /\ [][NextHw]_vars

\* ------------------------------------------------------------------------
\* SpecTemp: successive calls of Hardware.read_temp_ds18b20 on one probe, from
\* a build with or without probes.  calls holds the reads made so far: what
\* the probe file gave, the value returned and whether the warning was
\* printed.
\* ------------------------------------------------------------------------
\* reads of the probe in one run
MaxReads == 4

InitTemp ==
    /\ \E simulador \in BOOLEAN, ndev \in {0, NFerms} :
           Constructed(simulador, TRUE, ndev, NoFail, RestTemp, AllOk)
    /\ Fresh
    /\ arg = NoArg
    /\ ret = NoRet

\* the read failed: the except clause ran
Failed(h, reading) == ~h.sim /\ h.ds_devices > 0 /\ reading = ReadFail

\* the reads of the probe made since the build
TempReads == SelectSeq(calls, LAMBDA c : c.fn = "read_temp_ds18b20")

TempRead ==
    \E v \in Operated, r \in Readings :
        /\ Len(TempReads) < MaxReads
        /\ ReadingOk(r)
        /\ LET res == read_temp_ds18b20(hw, VesselIndex(v), r)
           IN  /\ hw' = Done(res.hw)
               /\ calls' = Append(calls, [fn |-> "read_temp_ds18b20",
                                          arg |-> VesselIndex(v),
                                          failed |-> Failed(hw, r),
                                          value |-> res.value,
                                          logged |-> res.logged])
               /\ ret' = [fn |-> "read_temp_ds18b20", exc |-> 0]
        /\ UNCHANGED << clock, ferm, readers, bus, op, fired, pump_cmd, arg, ext >>

NextTemp == TempRead

SpecTemp == InitTemp /\ [][NextTemp]_vars

\* ------------------------------------------------------------------------
\* The world of a whole timer callback or shutdown: the panel world and the
\* files, recording flags, flow channels, timer loop, readers and bus
\* ------------------------------------------------------------------------
FullWorld(plan, io) ==
    [hw |-> hw, ferm |-> ferm, calls |-> << >>,
     fired |-> NoneFired, pump_cmd |-> pump_cmd, fail |-> plan, steps |-> << >>,
     files |-> files, csv |-> csv, flow |-> flow, loop |-> loop,
     readers |-> readers, bus |-> bus, io |-> io, exc |-> FALSE]

CommitAll(w, name) ==
    /\ Commit(w, name)
    /\ files' = w.files
    /\ csv' = w.csv
    /\ flow' = w.flow
    /\ loop' = w.loop
    /\ readers' = w.readers
    /\ bus' = w.bus
    /\ steps' = w.steps
    /\ UNCHANGED dlg

\* the timer job that runs the callback is no longer pending
Fire(w) == [w EXCEPT !.loop.pending = IF @ > 0 THEN @ - 1 ELSE 0]

\* the first callback is called by __init__ at the build instant, the later
\* ones by the timer
Fires(tnow) ==
    IF op = "init" THEN tnow = clock /\ loop.pending = 0
    ELSE tnow > clock /\ loop.pending > 0

\* ------------------------------------------------------------------------
\* SpecFlow: the flow sampling loops of the three programs: App._tick
\* (TestGUI_3F_v5_cl.py), CO2App.refresh (TestCO2.py) and
\* FlowApp._schedule_loop (testing.py), each with simulated or real readers,
\* until its window is closed.  Nothing is recording, no file operation and
\* no driver call fails; a real reader can fail to read.
\* ------------------------------------------------------------------------
Programs == {"App", "CO2App", "FlowApp"}

\* sample_period_sec = 10 if reader.sim else 600   (testing.py)
PeriodIn(prog, r) ==
    IF prog = "FlowApp" THEN (IF r.sim THEN 10 ELSE 600) ELSE PeriodOf(r)

\* seconds after the build at which a callback can run
FlowOffsets == {0, 1, 10, 11, 600, Horizon, Horizon + 1, Horizon + 11}
FlowInstants == {StartInstant + d : d \in FlowOffsets}

\* loop currents read, in mA
Currents == {4, 12}
\* every channel reads the same current
CurrentsFor(rd) == [v \in Vessels |-> rd]

\* read_voltage can raise only on the channel of a bound reader
ReadOk(rd) ==
    rd = ReadFail => \A v \in Vessels : ~readers[v].sim /\ readers[v].chan # None

InitFlow ==
    /\ \E simulador \in BOOLEAN :
           Constructed(simulador, TRUE, NFerms, NoFail, RestTemp, AllOk)
    /\ \E prog \in Programs :
           /\ flow = [v \in Vessels |->
                         [ChannelNew(readers[v]) EXCEPT !.period = PeriodIn(prog, readers[v])]]
           /\ loop = LoopNew(prog)
    /\ files = [f \in Files |-> FileAbsent]
    /\ csv = [v \in Vessels |-> CsvNew]
    /\ steps = << >>
    /\ dlg = NoDialog
    /\ arg = NoArg
    /\ ret = NoRet

\* what a callback was given and whether an exception left it
TickRet(fn, tcheck, ts, rd, w) ==
    [fn |-> fn, tcheck |-> tcheck, ts |-> ts, rd |-> rd, exc |-> w.exc]

FlowAppTick ==
    \E ts \in FlowInstants, rd \in Currents \cup {ReadFail} :
        /\ loop.prog = "App"
        /\ Fires(ts)
        /\ ReadOk(rd)
        /\ clock' = ts
        /\ LET w == app_tick(Fire(FullWorld(NoFail, NoIo)), ts, ReadingsFor(RestTemp),
                             CurrentsFor(rd))
           IN  /\ CommitAll(w, "tick")
               /\ ret' = TickRet("_tick", ts, ts, rd, w)
        /\ UNCHANGED arg

FlowRefresh ==
    \E ts \in FlowInstants, rd \in Currents \cup {ReadFail} :
        /\ loop.prog = "CO2App"
        /\ Fires(ts)
        /\ ReadOk(rd)
        /\ clock' = ts
        /\ LET w == refresh(Fire(FullWorld(NoFail, NoIo)), ts, CurrentsFor(rd))
           IN  /\ CommitAll(w, "tick")
               /\ ret' = TickRet("refresh", ts, ts, rd, w)
        /\ UNCHANGED arg

FlowScheduleLoop ==
    \E tcheck \in FlowInstants, ts \in FlowInstants, rd \in Currents \cup {ReadFail} :
        /\ loop.prog = "FlowApp"
        /\ Fires(tcheck)
        /\ ts >= tcheck
        /\ ts - tcheck <= 1
        /\ ReadOk(rd)
        /\ clock' = ts
        /\ LET w == schedule_loop(Fire(FullWorld(NoFail, NoIo)), tcheck, ts, rd)
           IN  /\ CommitAll(w, "tick")
               /\ ret' = TickRet("_schedule_loop", tcheck, ts, rd, w)
        /\ UNCHANGED arg

\* the window is closed: App.on_close, CO2App.on_close, FlowApp._on_close
FlowClose ==
    /\ op # "init"
    /\ ~loop.closing
    /\ LET w0 == FullWorld(NoFail, NoIo)
           w == IF loop.prog = "App" THEN on_close(w0)
                ELSE IF loop.prog = "CO2App" THEN co2_on_close(w0)
                ELSE flowapp_on_close(w0)
       IN  /\ CommitAll(w, "on_close")
           /\ ret' = [fn |-> "on_close", exc |-> w.exc]
    /\ UNCHANGED << clock, arg >>

NextFlow ==
    \/ FlowAppTick
    \/ FlowRefresh
    \/ FlowScheduleLoop
    \/ FlowClose

SpecFlow == InitFlow /\ [][NextFlow]_vars

\* ------------------------------------------------------------------------
\* SpecLog: App with its log files: whole ticks (every panel's update_process
\* with its log write, then the flow sampling), the recording buttons of the
\* operated panel, and the closing of the window.  One file operation of a
\* tick can fail; a driver call of the shutdown can raise.
\* ------------------------------------------------------------------------
\* seconds after the build at which a tick can run
MaxLogSec == 1
LogInstants == {StartInstant + d : d \in 0..MaxLogSec}

Sinks == {"proc", "backup", "co2"}
IoFaults == {"mkdir", "open", "write", "write_row"}
IoPlans ==
    {NoIo} \cup {[sink |-> s, v |-> v, fault |-> f] :
                     s \in Sinks, v \in Operated, f \in IoFaults}

\* a file operation can fail only where the tick performs it
IoOk(io, rd) ==
    /\ io.sink = "proc" => csv[io.v].running
    /\ io.sink = "co2" => (csv[io.v].co2_running /\ rd # ReadFail)

\* the log files of the operated panel and the backup file can be left over,
\* empty, from an earlier run
InitLog ==
    /\ \E simulador \in BOOLEAN :
           Constructed(simulador, TRUE, NFerms, NoFail, RestTemp, AllOk)
    /\ \E left \in SUBSET ({ProcFile(v) : v \in Operated}
                              \cup {Co2File(v) : v \in Operated} \cup {BackupFile}) :
           files = [f \in Files |-> IF f \in left THEN FileEmpty ELSE FileAbsent]
    /\ csv = [v \in Vessels |-> CsvNew]
    /\ flow = [v \in Vessels |-> ChannelNew(readers[v])]
    /\ loop = LoopNew("App")
    /\ steps = << >>
    /\ dlg = NoDialog
    /\ arg = NoArg
    /\ ret = NoRet

LogTick ==
    \E ts \in LogInstants, r \in {RestTemp, 390}, rd \in {4, ReadFail}, io \in IoPlans :
        /\ Fires(ts)
        /\ ReadOk(rd)
        /\ IoOk(io, rd)
        /\ clock' = ts
        /\ LET w == app_tick(Fire(FullWorld(NoFail, io)), ts, ReadingsFor(r),
                             CurrentsFor(rd))
           IN  /\ CommitAll(w, "tick")
               /\ ret' = [fn |-> "_tick", tcheck |-> ts, ts |-> ts, rd |-> rd,
                          exc |-> w.exc, io |-> io]
        /\ UNCHANGED arg

\* a recording button: its handler changes the flags and, on restart, the file
Button(name, w) ==
    /\ op # "init"
    /\ ~loop.closing
    /\ CommitAll(w, name)
    /\ ret' = [fn |-> name, exc |-> FALSE]
    /\ UNCHANGED << clock, arg >>

CsvStart == \E v \in Operated : Button("csv_start", csv_start(FullWorld(NoFail, NoIo), v))
CsvPause == \E v \in Operated : Button("csv_pause", csv_pause(FullWorld(NoFail, NoIo), v))
CsvRestart ==
    \E v \in Operated, removed \in BOOLEAN :
        Button("csv_restart", csv_restart(FullWorld(NoFail, NoIo), v, removed))
Co2CsvStart ==
    \E v \in Operated : Button("co2_csv_start", co2_csv_start(FullWorld(NoFail, NoIo), v))
Co2CsvPause ==
    \E v \in Operated : Button("co2_csv_pause", co2_csv_pause(FullWorld(NoFail, NoIo), v))
Co2CsvRestart ==
    \E v \in Operated, removed \in BOOLEAN :
        Button("co2_csv_restart", co2_csv_restart(FullWorld(NoFail, NoIo), v, removed))

\* the manual dosing button of the operated panel
LogToggleNut ==
    \E v \in Operated :
        /\ op # "init"
        /\ ~loop.closing
        /\ Commit(toggle_manual_nut(World(NoFail), v, clock), "toggle_manual_nut")
        /\ UNCHANGED << clock, readers, bus, arg, ret, ext >>

\* the release of the bus handle can raise where there is a handle
DeinitFault == [sink |-> "bus", v |-> "", fault |-> "deinit"]

LogClose ==
    \E plan \in FailPlans, io \in {NoIo, DeinitFault} :
        /\ op # "init"
        /\ ~loop.closing
        /\ PlanOk(plan)
        /\ io = DeinitFault => bus.handle # None
        /\ LET w == on_close(FullWorld(plan, io))
           IN  /\ CommitAll(w, "on_close")
               /\ ret' = [fn |-> "on_close", exc |-> w.exc, plan |-> plan, io |-> io]
        /\ UNCHANGED << clock, arg >>

NextLog ==
    \/ LogTick
    \/ CsvStart
    \/ CsvPause
    \/ CsvRestart
    \/ Co2CsvStart
    \/ Co2CsvPause
    \/ Co2CsvRestart
    \/ LogToggleNut
    \/ LogClose

SpecLog == InitLog /\ [][NextLog]_vars

\* ------------------------------------------------------------------------
\* The calendar dialog of the operated panel: opened by edit_cal_sp or
\* edit_cal_nut, edited, then accepted or cancelled.  Days pass while the
\* program runs and while the dialog stays open.
\* ------------------------------------------------------------------------
\* the days after the start day that the clock can reach
MaxDay == 1

DlgDates == 0..(MaxDay + 1)

\* the time entry: "08:00", "08:01", "24:00" and the empty entry
TimeEntries == {HM(8, 0), HM(8, 1), HM(24, 0), << >>}

\* the value entry: "20.5", "abc" and the empty entry
ValueEntries == {Str(410), Garbage, EmptyStr}

\* rows of an imported file.  The date is the start day, the last day or text
\* in no known format; the time "08:00" or "24:00"; the value the text "20.5",
\* the Excel numbers 20.5 and 0, text that is no number, or there is no value
\* column.  A file holds one such row, alone or after a good row.
CalRow(date, tstr, raw) == [date |-> date, time |-> tstr, value |-> raw]

Day(day) == [ok |-> TRUE, day |-> day]
NoDate == [ok |-> FALSE, day |-> 0]

CalRows ==
    {CalRow(date, HM(8, 0), Str(410)) : date \in {Day(0), Day(MaxDay + 1), NoDate}}
        \cup {CalRow(Day(MaxDay + 1), HM(24, 0), Str(410))}
        \cup {CalRow(Day(MaxDay + 1), HM(8, 0), raw) : raw \in {Num(410), Num(0), Garbage, Missing}}

CalRowLists ==
    {<< r >> : r \in CalRows}
        \cup {<< CalRow(Day(MaxDay), HM(8, 1), Str(410)), r >> : r \in CalRows}

RECURSIVE CountEvents(_, _)
CountEvents(events_dict, keys) ==
    IF keys = {} THEN 0
    ELSE LET k == CHOOSE x \in keys : TRUE
         IN  Len(events_dict[k]) + CountEvents(events_dict, keys \ {k})

Room(d) == CountEvents(d.data, DOMAIN d.data) < MaxEvents

InitDialog ==
    /\ \E simulador \in BOOLEAN :
           Constructed(simulador, TRUE, NFerms, NoFail, RestTemp, AllOk)
    /\ Fresh
    /\ arg = NoArg
    /\ ret = NoRet

DlgFrame == UNCHANGED << clock, hw, ferm, readers, bus, op, calls, fired, pump_cmd, arg,
                         files, csv, flow, loop, steps >>

\* the accepted calendar a run opens the dialog on again
ReopenCal == (0 :> << Event(HM(8, 0), 410) >>)

\* the instants of the ticks that run around the dialog
DlgInstants == {StartInstant} \cup {At(day, 8, 0, 0) : day \in 0..MaxDay}

\* edit_cal_sp / edit_cal_nut up to wait_window, once the main loop runs; a
\* run opens the dialog on empty calendars and again on ReopenCal
DlgOpen ==
    \E v \in Operated, which \in {"sp", "nut"} :
        /\ Running
        /\ ~dlg.open
        /\ ferm[v].cal_nut = EmptyCal
        /\ ferm[v].cal_sp = EmptyCal \/ (which = "sp" /\ ferm[v].cal_sp = ReopenCal)
        /\ dlg' = DialogNew(which, IF which = "sp" THEN ferm[v].cal_sp ELSE ferm[v].cal_nut,
                            DateOf(clock))
        /\ ret' = [fn |-> "open"]
        /\ DlgFrame

DlgSelectDate ==
    \E date \in DlgDates :
        /\ dlg.open
        /\ dlg' = select_date(dlg, date)
        /\ ret' = [fn |-> "select_date"]
        /\ DlgFrame

DlgAddEvent ==
    \E t \in TimeEntries, raw \in ValueEntries :
        /\ dlg.open
        /\ Room(dlg)
        /\ dlg' = add_event(dlg, t, raw)
        /\ ret' = [fn |-> "add_event", t |-> t, raw |-> raw]
        /\ DlgFrame

DlgEditEvent ==
    \E idx \in 0..MaxEvents, t \in TimeEntries, raw \in ValueEntries :
        /\ dlg.open
        /\ idx <= Len(DictGet(dlg.data, ymd(dlg.selected_date)))
        /\ dlg' = edit_event(dlg, idx, t, raw)
        /\ ret' = [fn |-> "edit_event", t |-> t, raw |-> raw]
        /\ DlgFrame

DlgDelEvent ==
    \E idx \in 0..MaxEvents :
        /\ dlg.open
        /\ idx <= Len(DictGet(dlg.data, ymd(dlg.selected_date)))
        /\ dlg' = del_event(dlg, idx)
        /\ ret' = [fn |-> "del_event"]
        /\ DlgFrame

DlgClearDay ==
    \E yes \in BOOLEAN :
        /\ dlg.open
        /\ dlg' = clear_day(dlg, yes)
        /\ ret' = [fn |-> "clear_day"]
        /\ DlgFrame

DlgImportFile ==
    \E rows \in CalRowLists :
        /\ dlg.open
        /\ dlg' = import_file(dlg, rows)
        /\ ret' = [fn |-> "import_file", rows |-> rows]
        /\ DlgFrame

\* accept, then the rest of edit_cal_sp / edit_cal_nut
DlgAccept ==
    \E v \in Operated :
        /\ dlg.open
        /\ ferm' = IF dlg.which = "sp" THEN [ferm EXCEPT ![v].cal_sp = dlg.data]
                   ELSE [ferm EXCEPT ![v].cal_nut = dlg.data]
        /\ dlg' = NoDialog
        /\ ret' = [fn |-> "accept"]
        /\ UNCHANGED << clock, hw, readers, bus, op, calls, fired, pump_cmd, arg,
                        files, csv, flow, loop, steps >>

\* cancel as it would be without data = None: the caller stores the edited copy
DlgCancel_KeepsData ==
    \E v \in Operated :
        /\ dlg.open
        /\ ferm' = IF dlg.which = "sp" THEN [ferm EXCEPT ![v].cal_sp = dlg.data]
                   ELSE [ferm EXCEPT ![v].cal_nut = dlg.data]
        /\ dlg' = NoDialog
        /\ ret' = [fn |-> "cancel", discarded |-> dlg.data]
        /\ UNCHANGED << clock, hw, readers, bus, op, calls, fired, pump_cmd, arg,
                        files, csv, flow, loop, steps >>

\* cancel: data = None, the panel keeps its calendar; the copy that is dropped
\* is recorded in ret
DlgCancel ==
    /\ dlg.open
    /\ dlg' = NoDialog
    /\ ret' = [fn |-> "cancel", discarded |-> dlg.data]
    /\ DlgFrame

\* midnight passes
DlgMidnight ==
    /\ DateOf(clock) < MaxDay
    /\ clock' = At(DateOf(clock) + 1, 0, 0, 0)
    /\ ret' = [fn |-> "midnight"]
    /\ UNCHANGED << hw, ferm, readers, bus, op, calls, fired, pump_cmd, arg, ext >>

\* App._tick: the first one inside App.__init__, the later ones from
\* wait_window's event loop while the dialog is open
DlgTick ==
    \E tnow \in DlgInstants :
        /\ op = "init" \/ dlg.open
        /\ IF op = "init" THEN tnow = clock ELSE tnow > clock
        /\ clock' = tnow
        /\ Commit(tick_from(World(NoFail), 1, tnow, ReadingsFor(RestTemp)), "tick")
        /\ ret' = [fn |-> "tick"]
        /\ UNCHANGED << readers, bus, arg, ext >>

NextDialog ==
    \/ DlgTick
    \/ DlgOpen
    \/ DlgSelectDate
    \/ DlgAddEvent
    \/ DlgEditEvent
    \/ DlgDelEvent
    \/ DlgClearDay
    \/ DlgImportFile
    \/ DlgAccept
    \/ DlgCancel
    \/ DlgMidnight

SpecDialog == InitDialog /\ [][NextDialog]_vars

\* ------------------------------------------------------------------------
\* The 4-20 mA conversions as pure functions: the current is the one
\* voltage_to_current_ma returned, the limits are the module constants of the
\* program
\* ------------------------------------------------------------------------
\* 2, 3.79, 3.8, 4, 12, 20, 20.5, 20.6 and 25 mA
ConvCurrents == {Float(k, 100) : k \in {200, 379, 380, 400, 1200, 2000, 2050, 2060, 2500}}

\* 0.0, 0.1, 8.2 and 50.0 as FLOW_MIN / FLOW_MAX
FlowLimits == {Float(0, 1), Float(1, 10), Float(82, 10), Float(50, 1)}

InitConv ==
    /\ Constructed(TRUE, FALSE, 0, NoFail, RestTemp, AllOk)
    /\ Fresh
    /\ \E prog \in Programs, c \in ConvCurrents, lo \in FlowLimits, hi \in FlowLimits :
           arg = [fn |-> "convert", prog |-> prog, current_ma |-> c,
                  flow_min |-> lo, flow_max |-> hi]
    /\ ret = NoRet

ConvFrame == UNCHANGED << clock, hw, ferm, readers, bus, op, calls, fired, pump_cmd, arg, ext >>

CallCurrentToFlow ==
    /\ ret' = [fn |-> "current_to_flow",
               value |-> IF arg.prog = "FlowApp"
                         THEN current_to_flow_m3h(arg.current_ma, arg.flow_min, arg.flow_max)
                         ELSE current_to_flow_sccm(arg.current_ma, arg.flow_min, arg.flow_max)]
    /\ ConvFrame

\* the measuring part of App._flow_take_sample and CO2App._flow_take_sample
CallMeasure ==
    /\ arg.prog # "FlowApp"
    /\ ret' = [fn |-> "measure",
               value |-> measure(arg.current_ma, arg.flow_min, arg.flow_max)]
    /\ ConvFrame

NextConv ==
    \/ CallCurrentToFlow
    \/ CallMeasure

SpecConv == InitConv /\ [][NextConv]_vars

\* ========================================================================
\* Properties of temperature control, checked under SpecThermal
\* ========================================================================

\* C1: for every vessel, after any sequence of automatic ticks (any
\* temperature, setpoint and band, a band <= 0 included), manual-mode toggles,
\* forzar_frio, forzar_caliente, cerrar_todo and stop_all, cold_in and hot_in
\* are never both true.
C1_NeverBothOn ==
    \A v \in Vessels : ~(ferm[v].cold_in /\ ferm[v].hot_in)

\* an automatic tick has switched an actuator on under a band of zero
C1_Witness ==
    \E v \in Operated :
        /\ op = "tick"
        /\ ~ferm[v].manual_mode
        /\ ferm[v].band <= 0
        /\ ferm[v].cold_in \/ ferm[v].hot_in

\* C6 (as claimed): forzar_frio, forzar_caliente and cerrar_todo, called with
\* manual_mode false, leave cold_in, hot_in and the relay outputs unchanged.
C6_ForceRejectedInAuto ==
    [][\A v \in Vessels :
          (op' \in {"forzar_frio", "forzar_caliente", "cerrar_todo"}
              /\ ~ferm[v].manual_mode)
          => /\ ferm'[v].cold_in = ferm[v].cold_in
             /\ ferm'[v].hot_in = ferm[v].hot_in
             /\ hw'.out = hw.out]_vars

\* the relay methods a handler called for the pins of v
RelayCallsFor(cs, v) ==
    {i \in DOMAIN cs :
        /\ cs[i].fn \in {"relay_on", "relay_off"}
        /\ cs[i].arg \in {RELAY_PINS[v].cold, RELAY_PINS[v].hot}}

\* C7: while manual override is active, a tick leaves cold_in, hot_in and the
\* setpoint as they were, whatever the temperature and the setpoint calendar,
\* and calls no relay method for the vessel.
C7_ManualTickFreezes ==
    [][op' = "tick" =>
          \A v \in Vessels :
              ferm[v].manual_mode
              => /\ ferm'[v].cold_in = ferm[v].cold_in
                 /\ ferm'[v].hot_in = ferm[v].hot_in
                 /\ ferm'[v].sp = ferm[v].sp
                 /\ RelayCallsFor(calls', v) = {}]_vars

\* a tick in manual mode has kept a forced cold valve open below the lower
\* threshold and has kept a setpoint the calendar would replace
C7_Witness ==
    \E v \in Operated :
        /\ op = "tick"
        /\ ferm[v].manual_mode
        /\ ferm[v].cold_in
        /\ ferm[v].t <= ferm[v].sp - ferm[v].band
        /\ sp_from_date_calendar(ferm[v].cal_sp, clock, Nil) \notin {Nil, ferm[v].sp}

\* ========================================================================
\* Properties of nutrient dosing, checked under SpecDosing
\* ========================================================================

\* the pump methods a handler called for v, in order
PumpCallsFor(cs, v) ==
    LET IsPumpCall(c) == c.fn \in {"start_stepper", "stop_stepper"} /\ c.arg = v
    IN  SelectSeq(cs, IsPumpCall)

\* C2: the events of a minute open a dosing window once.  Every tick records
\* its minute; the first tick of a minute whose events have a positive total
\* fires them (nut_running_until = tick time + total); a later tick of the same
\* minute fires nothing, sets no window end and does not start the pump.
C2_FiresOncePerMinute ==
    [][op' = "tick" =>
          \A v \in Vessels :
              LET p == ferm[v]
                  q == ferm'[v]
                  minute == strftime_YmdHM(clock')
                  total == dur_total(nut_fire_for_minute(p.cal_nut, clock'))
              IN  /\ q.last_min = minute
                  /\ (p.last_min # minute /\ total > 0)
                     => (fired'[v] /\ q.nut_running_until = clock' + total)
                  /\ (p.last_min # minute /\ total <= 0) => ~fired'[v]
                  /\ p.last_min = minute
                     => /\ ~fired'[v]
                        /\ q.nut_running_until \in {p.nut_running_until, Nil}
                        /\ \A i \in DOMAIN PumpCallsFor(calls', v) :
                               PumpCallsFor(calls', v)[i].fn # "start_stepper"]_vars

\* a second tick has run in the minute of a fired event, inside its window,
\* without firing
C2_Witness ==
    \E v \in Operated :
        /\ op = "tick"
        /\ clock % 60 # 0
        /\ ferm[v].last_min = strftime_YmdHM(clock)
        /\ dur_total(nut_fire_for_minute(ferm[v].cal_nut, clock)) > 0
        /\ ferm[v].nut_running_until > clock
        /\ ~fired[v]

\* schedule_active OR manual_nut_on, at the moment of the last handler
Demand(p) ==
    (p.nut_running_until # Nil /\ clock < p.nut_running_until) \/ p.manual_nut_on

PumpFollowsDemand(v) ==
    /\ ferm[v].nut_led_on = Demand(ferm[v])
    /\ (pump_cmd[v] = "start") = Demand(ferm[v])

\* C3: after every tick, toggle_manual_nut and stop_all the pump is commanded
\* running (_nut_led_on, and the last of start_stepper / stop_stepper called
\* for it) exactly when schedule_active or manual_nut_on holds.
C3_PumpFollowsDemand ==
    /\ op \in {"tick", "stop_all"} => \A v \in Vessels : PumpFollowsDemand(v)
    /\ op = "toggle_manual_nut" => \A v \in Operated : PumpFollowsDemand(v)

\* the manual toggle was made inside a window; the window has ended at a tick
\* and the pump is still commanded running, without a stop
C3_Witness ==
    \E v \in Operated :
        /\ op = "tick"
        /\ ferm[v].manual_nut_on
        /\ ferm[v].nut_running_until = Nil
        /\ ferm[v].last_min = strftime_YmdHM(clock)
        /\ dur_total(nut_fire_for_minute(ferm[v].cal_nut, clock)) > 0
        /\ ferm[v].nut_led_on
        /\ pump_cmd[v] = "start"

\* C4: a dose fired at a tick is active at that tick; at a later tick before
\* the window end the window and the pump are kept; the first tick at or after
\* the window end clears nut_running_until and, with manual dosing off, stops
\* the pump.  The end bound is exclusive.
C4_WindowEndExclusive ==
    [][op' = "tick" =>
          \A v \in Vessels :
              LET p == ferm[v]
                  q == ferm'[v]
                  u == p.nut_running_until
              IN  /\ fired'[v]
                     => (q.nut_running_until > clock' /\ q.nut_led_on
                            /\ pump_cmd'[v] = "start")
                  /\ (u # Nil /\ ~fired'[v] /\ clock' < u)
                     => (q.nut_running_until = u /\ q.nut_led_on
                            /\ pump_cmd'[v] = "start")
                  /\ (u # Nil /\ ~fired'[v] /\ clock' >= u)
                     => /\ q.nut_running_until = Nil
                        /\ ~p.manual_nut_on
                           => (~q.nut_led_on /\ pump_cmd'[v] = "stop")]_vars

\* the tick at 08:00:02 has stopped the pump of a 2 s dose fired at 08:00:00
C4_Witness ==
    \E v \in Operated :
        /\ op = "tick"
        /\ clock = At(0, 8, 0, 2)
        /\ nut_fire_for_minute(ferm[v].cal_nut, clock) = << 2 >>
        /\ ~ferm[v].manual_nut_on
        /\ ferm[v].nut_running_until = Nil
        /\ ~ferm[v].nut_led_on
        /\ PumpCallsFor(calls, v) = << Call("stop_stepper", v) >>

\* C5 (as claimed): no handler calls start_stepper for a vessel twice without a
\* stop_stepper between, and none calls start_stepper first while the pump is
\* already commanded running.
C5_EdgeTriggered ==
    [][\A v \in Vessels :
          LET cs == PumpCallsFor(calls', v)
          IN  /\ \A i \in 1..(Len(cs) - 1) :
                     ~(cs[i].fn = "start_stepper" /\ cs[i + 1].fn = "start_stepper")
              /\ (pump_cmd[v] = "start" /\ cs # << >>)
                 => cs[1].fn # "start_stepper"]_vars

\* ========================================================================
\* Properties of the calendar functions, checked under SpecCal
\* ========================================================================

\* the time of day an event string denotes, in minutes
MinuteOfDay(tstr) ==
    LET parts == SplitColon(tstr)
    IN  ParseInt(parts[1]) * 60 + ParseInt(parts[2])

\* the value of the event of tm's date with the greatest time of day not after
\* tm's, the last in list order among equals; default when there is none
ChronoValueAt(events_dict, tm, default) ==
    LET flist == DictGet(events_dict, ymd(DateOf(tm)))
        tnow == HourOf(tm) * 60 + MinuteOf(tm)
        due == {i \in DOMAIN flist : MinuteOfDay(flist[i].time) <= tnow}
    IN  IF due = {} THEN default
        ELSE LET best == CHOOSE i \in due :
                             \A j \in due :
                                 \/ MinuteOfDay(flist[j].time) < MinuteOfDay(flist[i].time)
                                 \/ /\ MinuteOfDay(flist[j].time) = MinuteOfDay(flist[i].time)
                                    /\ j <= i
             IN  flist[best].value

\* C8 (as claimed): sp_from_date_calendar returns the value of the event on
\* t's date with the greatest time of day <= t's, the last in list order when
\* several share it, and default when there is none.
C8_ValueAt ==
    ret.fn = "sp_from_date_calendar"
    => ret.value = ChronoValueAt(arg.events_dict, arg.t, arg.default)

\* ========================================================================
\* Properties of the hardware layer, checked under SpecHw
\* ========================================================================

\* C9: a simulation flag that is true stays true: no relay, pump, read, close
\* or cleanup call sets Hardware.sim, Hardware.sim_gpio or a reader's sim back
\* to false.
C9_SimFlagsSticky ==
    [][/\ hw.sim => hw'.sim
       /\ hw.sim_gpio => hw'.sim_gpio
       /\ \A v \in Vessels : readers[v].sim => readers'[v].sim]_vars

\* cleanup has run on a demoted actuator domain, after a fallen-back reader
\* was closed and the bus released
C9_Witness ==
    /\ ret.fn = "cleanup"
    /\ hw.sim_gpio
    /\ ~hw.sim
    /\ bus.deinits > 0
    /\ \E v \in Vessels : readers[v].sim /\ readers[v].ads = None

ActuatorMethods == {"relay_on", "relay_off", "start_stepper", "stop_stepper"}

\* C10: when relay_on, relay_off, start_stepper or stop_stepper raises inside,
\* the actuator domain is demoted (sim_gpio true with its reason, GPIO handle
\* and pump table dropped) and nothing is raised to the caller; on a demoted
\* domain each of these calls changes nothing.
C10_RaiseDemotes ==
    [][ret'.fn \in ActuatorMethods =>
          /\ ret'.exc # 0
             => /\ hw'.sim_gpio
                /\ hw'.sim_gpio_reason # ""
                /\ hw'.gpio = None
                /\ hw'.pwms = {}
          /\ ~hw'.raised
          /\ hw.sim_gpio => hw' = hw]_vars

\* relay_off was called, and returned, on a domain demoted while a relay was
\* energised
C10_Witness ==
    /\ ret.fn = "relay_off"
    /\ ret.exc = 0
    /\ hw.sim_gpio
    /\ ~hw.sim
    /\ hw.sim_gpio_reason = "GPIO fallback"
    /\ \E pin \in OperatedPins : hw.out[pin] = "LOW"

\* ========================================================================
\* Properties of the temperature probe, checked under SpecTemp
\* ========================================================================

\* C11 (as claimed): read_temp_ds18b20 prints its warning once per run of
\* consecutive failed reads: a failed read prints it exactly when it is the
\* first read or follows a successful one, and a successful read prints nothing.
C11_WarnsOncePerRun ==
    \A i \in 1..Len(TempReads) :
        TempReads[i].logged
            <=> /\ TempReads[i].failed
                /\ (i = 1 \/ ~TempReads[i - 1].failed)

\* ========================================================================
\* Properties of flow sampling, checked under SpecFlow
\* ========================================================================

\* the channels the running program samples
Sampled == {Channels(loop.prog)[i] : i \in 1..Len(Channels(loop.prog))}

LastOf(seq) == seq[Len(seq)]

\* consecutive samples of every ring are at least the channel's period apart
SamplesSpaced ==
    \A v \in Vessels : \A i \in 1..(Len(flow[v].samples) - 1) :
        flow[v].samples[i + 1].ts - flow[v].samples[i].ts >= flow[v].period

\* a callback that finds a channel not due leaves its ring and next-due alone,
\* one that finds it due and reads it appends the sample and sets next-due to
\* the sample's instant + period
DueStep ==
    op' = "tick"
    => \A v \in Vessels :
           LET due == /\ v \in Sampled
                      /\ (flow[v].next = Nil \/ ret'.tcheck >= flow[v].next)
           IN  /\ ~due => flow'[v] = flow[v]
               /\ flow'[v].period = flow[v].period
               /\ (due /\ ret'.rd # ReadFail)
                  => /\ Len(flow'[v].samples) > 0
                     /\ LastOf(flow'[v].samples) = Sample(ret'.ts, ret'.rd)
                     /\ flow'[v].next = ret'.ts + flow[v].period

\* C12: a tick samples a flow channel exactly when its next-due instant is
\* unset or now >= next-due; a successful sample sets next-due = now + period;
\* so two consecutive samples of a channel are at least a period apart, and a
\* tick before next-due changes neither the ring nor next-due.
C12_SampledWhenDue == []SamplesSpaced /\ [][DueStep]_vars

\* a tick found a channel with a 10 s period not due, after two samples of it
C12_Witness ==
    /\ op = "tick"
    /\ ret.rd # ReadFail
    /\ \E v \in Operated :
           /\ flow[v].period = 10
           /\ Len(flow[v].samples) >= 2
           /\ LastOf(flow[v].samples).ts < clock
           /\ flow[v].next > clock

\* C13 (as claimed): a failed read of a due flow channel is not fatal: the ring
\* gets no sample, next-due becomes the attempted instant + period, no
\* exception leaves the callback and the next callback is armed.
C13_ReadFailureNotFatal ==
    [][(op' = "tick" /\ ret'.rd = ReadFail)
       => /\ ~ret'.exc
          /\ loop'.pending = 1
          /\ \A v \in Sampled :
                 (flow[v].next = Nil \/ ret'.tcheck >= flow[v].next)
                 => /\ flow'[v].samples = flow[v].samples
                    /\ flow'[v].next = ret'.ts + flow[v].period]_vars

\* the samples of a ring that are not older than the horizon at ts, in order
NotOlder(samples, ts) == SelectSeq(samples, LAMBDA x : ts - x.ts <= Horizon)

\* C14: after every successful flow sample at ts the ring holds no sample
\* older than ts minus the retention horizon of 21 days, holds every earlier
\* sample that is not older than that, and keeps them in the order they were
\* appended, the new sample last.
C14_RingRetention ==
    [][(op' = "tick" /\ ret'.rd # ReadFail /\ loop.prog \in {"App", "CO2App"})
       => \A v \in Sampled :
              (flow[v].next = Nil \/ ret'.ts >= flow[v].next)
              => flow'[v].samples
                     = Append(NotOlder(flow[v].samples, ret'.ts),
                              Sample(ret'.ts, ret'.rd))]_vars

\* a sample taken by a simulated reader dropped the build-instant sample and
\* kept one that is exactly 21 days old
C14_Witness ==
    /\ op = "tick"
    /\ loop.prog \in {"App", "CO2App"}
    /\ \E v \in Operated :
           /\ readers[v].sim
           /\ Len(flow[v].samples) >= 2
           /\ flow[v].samples[1].ts > StartInstant
           /\ flow[v].samples[1].ts = clock - Horizon
           /\ LastOf(flow[v].samples).ts = clock

\* C19 (as claimed): at most one tick is pending at any time, and until
\* shutdown begins every tick, one in which a sensor read fails included, runs
\* to completion and arms the next tick.
C19_LoopStaysAlive ==
    /\ [](loop.pending <= 1)
    /\ [][op' = "tick" => (~ret'.exc /\ loop'.pending = 1)]_vars

\* ========================================================================
\* Properties of the log files and of the whole tick, checked under SpecLog
\* ========================================================================

\* C15 (as claimed): whatever the sequence of start, pause, restart and append
\* operations, every log file that holds rows holds exactly one header row, as
\* its first row.
C15_OneHeaderFirst ==
    \A f \in Files :
        files[f].rows # << >>
        => /\ files[f].rows[1].kind = "H"
           /\ \A i \in 2..Len(files[f].rows) : files[f].rows[i].kind = "D"

\* C16 (as claimed): an append to a log file that exists but is empty writes
\* the header row before the data row, for every sink.
C16_HeaderOnEmptyFile ==
    [][(op' = "tick" /\ ret'.io = NoIo)
       => \A f \in Files :
              (files[f] = FileEmpty /\ files'[f].rows # << >>)
              => files'[f].rows[1].kind = "H"]_vars

\* the steps of a tick that runs to completion reach every panel's log write
\* and the flow sampling
ReachedAll(trace) ==
    /\ \A v \in Vessels : \E i \in 1..Len(trace) : trace[i] = << "log", v >>
    /\ \E i \in 1..Len(trace) : trace[i] = << "flow", "" >>

\* C17 (as claimed): a tick in which a log file operation fails still
\* completes the remaining vessels and the flow sampling and arms the next
\* tick, and the flow ring holds the sample whose CSV write failed.
C17_LogFailureNotFatal ==
    [][(op' = "tick" /\ ret'.io # NoIo)
       => /\ ~ret'.exc
          /\ ReachedAll(steps')
          /\ loop'.pending = 1
          /\ \A v \in Vessels :
                 (ret'.rd # ReadFail /\ (flow[v].next = Nil \/ ret'.ts >= flow[v].next))
                 => /\ Len(flow'[v].samples) > 0
                    /\ LastOf(flow'[v].samples) = Sample(ret'.ts, ret'.rd)]_vars

\* the steps of one panel's update_process, and of all panels in turn
PanelSteps(v) ==
    << << "setpoint", v >>, << "dosing", v >>, << "temperature", v >>,
       << "thermal", v >>, << "log", v >> >>

RECURSIVE PanelStepsFrom(_)
PanelStepsFrom(i) ==
    IF i > Len(Ferms) THEN << >> ELSE PanelSteps(Ferms[i]) \o PanelStepsFrom(i + 1)

FlowStep == << << "flow", "" >> >>

IsPrefix(s, t) == Len(s) <= Len(t) /\ s = SubSeq(t, 1, Len(s))

\* C18 (as claimed): in every tick the flow-sampling due check runs first,
\* then for each vessel the setpoint lookup, the dosing-window check, the
\* temperature acquisition, the actuation and the log write.
C18_FlowCheckFirst ==
    [][(op' = "tick" /\ ~ret'.exc) => steps' = FlowStep \o PanelStepsFrom(1)]_vars

\* C18 (amended): in every tick the steps run vessel by vessel - setpoint
\* lookup, dosing-window check, temperature acquisition, thermal actuation, log
\* write - and the flow-sampling due check runs last, after every vessel; a
\* tick that an exception cuts short has run a proper prefix of that order.
C18_FlowCheckLast ==
    [][op' = "tick"
       => /\ IsPrefix(steps', PanelStepsFrom(1) \o FlowStep)
          /\ ret'.exc <=> steps' # PanelStepsFrom(1) \o FlowStep]_vars

\* a whole tick wrote the backup rows of every panel and then took a flow
\* sample
C18_Witness ==
    /\ op = "tick"
    /\ ~ret.exc
    /\ steps = PanelStepsFrom(1) \o FlowStep
    /\ Len(files[BackupFile].rows) > Len(Ferms)
    /\ \E v \in Operated :
           /\ flow[v].samples # << >>
           /\ LastOf(flow[v].samples).ts = clock

\* the steps of on_close after the cancelling of the pending tick
RECURSIVE MarksFrom(_, _)
MarksFrom(step, i) ==
    IF i > Len(Ferms) THEN << >> ELSE << << step, Ferms[i] >> >> \o MarksFrom(step, i + 1)

CloseSteps ==
    MarksFrom("stop_all", 1) \o MarksFrom("close", 1)
        \o << << "cleanup", "" >>, << "cancel_jobs", "" >>, << "destroy", "" >> >>

\* what on_close leaves: no relay flag set, no dosing commanded, the bus
\* released by one deinit() at most, nothing pending
ClosedState ==
    /\ loop'.closing
    /\ loop'.pending = 0
    /\ \A v \in Vessels :
           /\ ~ferm'[v].cold_in
           /\ ~ferm'[v].hot_in
           /\ ~ferm'[v].nut_led_on
           /\ ~ferm'[v].manual_nut_on
           /\ ferm'[v].nut_running_until = Nil
           /\ readers'[v].chan = None
    /\ bus'.handle = None
    /\ bus'.deinits = bus.deinits + (IF bus.handle # None THEN 1 ELSE 0)

\* no pin drives a relay and no pump runs
AllReleased(h) ==
    /\ \A pin \in Pins : h.out[pin] # "LOW"
    /\ \A v \in Vessels : ~h.pwm_on[v]

C21_BusReleasedOnce ==
    /\ [](bus.handle = None => (op = "on_close" \/ \A v \in Vessels : readers[v].sim))
    /\ [][op' = "on_close"
          => /\ bus'.handle = None
             /\ bus'.deinits = bus.deinits + (IF bus.handle # None THEN 1 ELSE 0)
             /\ bus'.deinits <= 1
             /\ ~ret'.exc
             /\ IsPrefix(CloseSteps, SubSeq(steps', Len(steps') - Len(CloseSteps) + 1,
                                            Len(steps')))]_vars

\* every reader was bound to the bus, deinit() raised at shutdown, and the
\* shutdown went on to destroy the window
C21_Witness ==
    /\ op = "on_close"
    /\ ret.io = DeinitFault
    /\ bus.deinits = 1
    /\ bus.handle = None
    /\ \A v \in Vessels : ~readers[v].sim /\ readers[v].chan = None
    /\ LastOf(steps) = << "destroy", "" >>

\* ========================================================================
\* Properties of the calendar dialog, checked under SpecDialog
\* ========================================================================
\* the date holds, after the step, an event its list did not hold before
NewEventOn(date) ==
    \E i \in 1..Len(DictGet(dlg'.data, ymd(date))) :
        \A j \in 1..Len(DictGet(dlg.data, ymd(date))) :
            DictGet(dlg.data, ymd(date))[j] # DictGet(dlg'.data, ymd(date))[i]

\* C22: add_event, edit_event and the import of a file never place a new or
\* changed event on a date earlier than the current date at the time of the
\* edit.
C22_NoNewEventOnPastDate ==
    [][(dlg.open /\ dlg'.open /\ ret'.fn \in {"add_event", "edit_event", "import_file"})
       => \A date \in DlgDates : NewEventOn(date) => date >= DateOf(clock')]_vars

\* a row that supplies a date in a known format, a valid time and a value
\* float() converts
RowValid(row) == row.date.ok /\ hhmm_ok(row.time) /\ row.value.parses

\* the events of the valid rows dated date, in file order
ValidEventsOn(rows, date) ==
    LET sel == SelectSeq(rows, LAMBDA r : RowValid(r) /\ r.date.day = date)
    IN  [i \in 1..Len(sel) |-> Event(sel[i].time, sel[i].value.num)]

StoredOk(events_dict) ==
    \A k \in DOMAIN events_dict : \A i \in 1..Len(events_dict[k]) :
        hhmm_ok(events_dict[k][i].time) /\ events_dict[k][i].value \in Int

\* C23: every stored event has a time that passes hhmm_ok and a numeric value;
\* an add or edit with an invalid time or value leaves the calendar unchanged;
\* an import of a file with valid rows stores exactly the valid rows.
C23_OnlyValidInputStored ==
    /\ [](/\ StoredOk(dlg.data)
          /\ \A v \in Vessels : StoredOk(ferm[v].cal_sp) /\ StoredOk(ferm[v].cal_nut))
    /\ [][(dlg.open /\ ret'.fn \in {"add_event", "edit_event"}
              /\ (~hhmm_ok(ret'.t) \/ ~ret'.raw.parses))
          => dlg'.data = dlg.data]_vars
    /\ [][(dlg.open /\ ret'.fn = "import_file"
              /\ \E i \in 1..Len(ret'.rows) : RowValid(ret'.rows[i]))
          => \A date \in DlgDates :
                 DictGet(dlg'.data, ymd(date)) = ValidEventsOn(ret'.rows, date)]_vars

\* ========================================================================
\* Properties of the 4-20 mA conversions, checked under SpecConv
\* ========================================================================
\* the conversion of the program under test at another current
FlowAt(c) ==
    IF arg.prog = "FlowApp" THEN current_to_flow_m3h(c, arg.flow_min, arg.flow_max)
    ELSE current_to_flow_sccm(c, arg.flow_min, arg.flow_max)

\* C24: the conversion clamps the current to [4, 20] mA before mapping: a
\* current below 4 gives the result of 4, a current above 20 the result of 20.
C24_ClampsCurrent ==
    ret.fn = "current_to_flow"
        => /\ arg.current_ma < Float(4, 1) => ret.value = FlowAt(Float(4, 1))
           /\ arg.current_ma > Float(20, 1) => ret.value = FlowAt(Float(20, 1))

C24_Witness ==
    /\ ret.fn = "current_to_flow"
    /\ arg.current_ma = Float(25, 1)
    /\ arg.flow_max > arg.flow_min
    /\ ret.value = FlowAt(Float(20, 1))
    /\ ret.value > FlowAt(Float(4, 1))

\* C25: with max_flow > min_flow the conversion is non-decreasing in the
\* current, gives min_flow at 4 mA and max_flow at 20 mA exactly, and every
\* result lies in [min_flow, max_flow].
C25_ExactEndpoints ==
    (ret.fn = "current_to_flow" /\ arg.flow_max > arg.flow_min)
        => /\ FlowAt(Float(4, 1)) = arg.flow_min
           /\ FlowAt(Float(20, 1)) = arg.flow_max
           /\ arg.flow_min <= ret.value /\ ret.value <= arg.flow_max
           /\ \A c \in ConvCurrents : c <= arg.current_ma => FlowAt(c) <= ret.value

\* C26: with max_flow <= min_flow the conversion returns 0 for every current.
C26_DegenerateRangeGivesZero ==
    (ret.fn = "current_to_flow" /\ arg.flow_max <= arg.flow_min) => ret.value = Float(0, 1)

C26_Witness ==
    /\ ret.fn = "current_to_flow"
    /\ arg.flow_max < arg.flow_min
    /\ arg.current_ma = Float(12, 1)
    /\ ret.value = Float(0, 1)

\* C27: the status of a sample comes from the current as measured (below
\* 3.8 mA low range, above 20.5 mA high range, otherwise OK) while its flow
\* comes from that current clamped to [4, 20]: 3.79 mA is tagged low range and
\* its flow is that of 4 mA.
C27_StatusFromUnclampedCurrent ==
    ret.fn = "measure"
        => /\ ret.value.current_ma = arg.current_ma
           /\ ret.value.status = (IF arg.current_ma < Float(38, 10) THEN "Bajo rango"
                                  ELSE IF arg.current_ma > Float(205, 10) THEN "Alto rango"
                                  ELSE "OK")
           /\ ret.value.flow = (IF arg.current_ma < Float(4, 1) THEN FlowAt(Float(4, 1))
                                ELSE IF arg.current_ma > Float(20, 1) THEN FlowAt(Float(20, 1))
                                ELSE FlowAt(arg.current_ma))
           /\ arg.current_ma = Float(379, 100)
                  => ret.value.status = "Bajo rango" /\ ret.value.flow = FlowAt(Float(4, 1))

C27_Witness ==
    /\ ret.fn = "measure"
    /\ arg.current_ma = Float(379, 100)
    /\ arg.flow_max > arg.flow_min
    /\ ret.value.status = "Bajo rango"
    /\ ret.value.flow = arg.flow_min

\* ========================================================================
\* Properties of the flow log records, checked under SpecLog
\* ========================================================================
\* C28: every record of a flow (CO2) log file carries the seven fields
\* timestamp, vessel id, flow, rate, current, voltage and status.
C28_SevenFlowLogFields ==
    \A v \in Vessels :
        \A i \in 1..Len(files[Co2File(v)].rows) :
            files[Co2File(v)].rows[i].fields =
                << "timestamp", "fermentador", "flow_sccm", "rate_g_l_h",
                   "current_ma", "voltage_v", "status" >>

\* ========================================================================
\* Properties of the simulation domains, checked under SpecHw
\* ========================================================================
\* C29: the actuator domain and the sensor domains fall back independently.
\* A step that demotes the actuators (sim_gpio becoming true) leaves
\* Hardware.sim, the detected probes and every reader's sim flag unchanged;
\* from the build on, Hardware.sim and the probes follow the configuration
\* alone, a reader's sim flag the configuration and its own initialization,
\* and sim_gpio the configuration, the GPIO library and the driver calls.
C29_DomainsIndependent ==
    /\ [][(hw'.sim_gpio /\ ~hw.sim_gpio)
          => /\ hw'.sim = hw.sim
             /\ hw'.ds_devices = hw.ds_devices
             /\ \A v \in Vessels : readers'[v].sim = readers[v].sim]_vars
    /\ [](/\ hw.sim = arg.simulador
          /\ hw.ds_devices = (IF arg.simulador THEN 0 ELSE arg.ndev)
          /\ \A v \in Vessels :
                 /\ readers[v].sim => (arg.simulador \/ arg.outcomes[v] # "ok")
                 /\ (~arg.simulador /\ arg.outcomes[v] = "ok") => ~readers[v].sim
          /\ (ret.fn = "none" /\ hw.sim_gpio)
                 => (arg.simulador \/ ~arg.gpio_ok \/ arg.plan # 0))

\* the GPIO library was there at the build and a driver call raised later; the
\* probes and one reader are real, the other reader fell back on its own
C29_Witness ==
    /\ ret.fn = "relay_on" /\ ret.exc = 1
    /\ arg.gpio_ok /\ arg.plan = 0
    /\ hw.sim_gpio /\ ~hw.sim
    /\ hw.ds_devices = NFerms
    /\ \E v \in Vessels : ~readers[v].sim
    /\ \E v \in Vessels : readers[v].sim

\* ========================================================================
\* Properties of the hysteresis thresholds, checked under SpecThermal
\* ========================================================================
\* C30: an automatic tick switches with inclusive thresholds on the
\* temperature it read, the setpoint in force and the floored band: cold on
\* goes off at T <= sp - band, cold off goes on at T >= sp + band, hot on goes
\* off at T >= sp + band, hot off goes on at T <= sp - band, otherwise the
\* state is kept.  With setpoint 20 and band 0.5, cold goes on at 20.6, stays
\* on at 19.6 and goes off at 19.5.
C30_InclusiveThresholds ==
    [][\A v \in Vessels :
          (op' = "tick" /\ ~ferm'[v].manual_mode)
          => LET t == ferm'[v].t
                 sp == ferm'[v].sp
                 band == IF ferm'[v].band > BandFloor THEN ferm'[v].band ELSE BandFloor
             IN  /\ ferm'[v].cold_in = (IF ferm[v].cold_in THEN ~(t <= sp - band)
                                        ELSE t >= sp + band)
                 /\ ferm'[v].hot_in = (IF ferm[v].hot_in THEN ~(t >= sp + band)
                                       ELSE t <= sp - band)
                 /\ (sp = 400 /\ band = 10 /\ ~ferm[v].cold_in /\ t = 412)
                        => ferm'[v].cold_in
                 /\ (sp = 400 /\ band = 10 /\ ferm[v].cold_in /\ t = 392)
                        => ferm'[v].cold_in
                 /\ (sp = 400 /\ band = 10 /\ ferm[v].cold_in /\ t = 390)
                        => ~ferm'[v].cold_in]_vars

\* cold is on after a tick that read 19.6 degC under setpoint 20 and band 0.5:
\* below the switch-on threshold, so it was on before the tick and was kept
C30_Witness ==
    \E v \in Operated :
        /\ op = "tick"
        /\ ~ferm[v].manual_mode
        /\ ferm[v].sp = 400 /\ ferm[v].band = 10
        /\ ferm[v].t = 392
        /\ ferm[v].cold_in /\ ~ferm[v].hot_in

\* C31: every automatic decision uses the floored band, so the switch-on
\* threshold lies strictly above the switch-off threshold even for a
\* configured band <= 0, and a tick that follows a tick with the same
\* temperature, setpoint and band leaves cold_in, hot_in and the relay
\* outputs as the first tick left them.
C31_NoChatter ==
    /\ [](\A v \in Vessels :
              LET eb == IF ferm[v].band > BandFloor THEN ferm[v].band ELSE BandFloor
              IN  ferm[v].sp + eb > ferm[v].sp - eb)
    /\ [][\A v \in Vessels :
              (/\ op = "tick" /\ op' = "tick"
               /\ ~ferm[v].manual_mode /\ ~ferm'[v].manual_mode
               /\ ferm'[v].t = ferm[v].t
               /\ ferm'[v].sp = ferm[v].sp
               /\ ferm'[v].band = ferm[v].band)
              => /\ ferm'[v].cold_in = ferm[v].cold_in
                 /\ ferm'[v].hot_in = ferm[v].hot_in
                 /\ hw'.sim_gpio = hw.sim_gpio
                        => /\ hw'.out[RELAY_PINS[v].cold] = hw.out[RELAY_PINS[v].cold]
                           /\ hw'.out[RELAY_PINS[v].hot] = hw.out[RELAY_PINS[v].hot]]_vars

\* cold is on after a second tick at the setpoint itself under a configured
\* band of zero
C31_Witness ==
    \E v \in Operated :
        /\ op = "tick"
        /\ clock >= At(0, 8, 1, 0)
        /\ ~ferm[v].manual_mode
        /\ ferm[v].band <= 0
        /\ ferm[v].t = ferm[v].sp
        /\ ferm[v].cold_in
        /\ ~hw.sim_gpio

\* ========================================================================
\* Properties of the dosing events, checked under SpecDosing
\* ========================================================================
\* the tick at instant tnow evaluates the dosing calendar of v and every event
\* it finds for the minute has a duration <= 0
OnlyNullDoses(v, tnow) ==
    /\ ferm[v].last_min # strftime_YmdHM(tnow)
    /\ LET doses == nut_fire_for_minute(ferm[v].cal_nut, tnow)
       IN  /\ doses # << >>
           /\ \A i \in 1..Len(doses) : doses[i] <= 0

StartsPump(cs, v) ==
    \E i \in 1..Len(PumpCallsFor(cs, v)) : PumpCallsFor(cs, v)[i].fn = "start_stepper"

\* C32 (as claimed): a tick in which only events of duration <= 0 fire leaves
\* nut_running_until unchanged and issues no pump start.
C32_NullDoseLeavesWindow ==
    [][\A v \in Vessels :
          (op' = "tick" /\ OnlyNullDoses(v, clock'))
          => /\ ferm'[v].nut_running_until = ferm[v].nut_running_until
             /\ ~StartsPump(calls', v)]_vars

\* C32 (amended): a tick in which only events of duration <= 0 fire opens no
\* window and issues no pump start; nut_running_until keeps its value while
\* the window it ends is still running and is cleared, as in every tick, once
\* that window has ended.
C32_NullDoseOpensNoWindow ==
    [][\A v \in Vessels :
          (op' = "tick" /\ OnlyNullDoses(v, clock'))
          => /\ ~fired'[v]
             /\ ferm'[v].nut_running_until =
                    (IF ferm[v].nut_running_until # Nil /\ clock' < ferm[v].nut_running_until
                     THEN ferm[v].nut_running_until ELSE Nil)
             /\ ~StartsPump(calls', v)]_vars

\* the tick of 08:01:00 has found the event of duration 0 and has cleared the
\* window of the 08:00 event, which ended at 08:00:02
C32_Witness ==
    \E v \in Operated :
        /\ op = "tick"
        /\ clock = At(0, 8, 1, 0)
        /\ ferm[v].cal_nut = (0 :> << Event(HM(8, 0), 2), Event(HM(8, 1), 0) >>)
        /\ ferm[v].last_min = strftime_YmdHM(clock)
        /\ ferm[v].nut_running_until = Nil
        /\ ~ferm[v].nut_led_on
        /\ PumpCallsFor(calls, v) = << Call("stop_stepper", v) >>


\* C33: after stop_all the manual override is on, both relays are off, the
\* dosing window is cleared and the pump is stopped, and the automatic tick
\* that follows, with no operator command in between, starts no actuator:
\* neither a relay nor the dosing pump.
C33_StopAllHolds ==
    /\ [](op = "stop_all"
             => \A v \in Vessels :
                    /\ ferm[v].manual_mode
                    /\ ~ferm[v].cold_in /\ ~ferm[v].hot_in
                    /\ ferm[v].nut_running_until = Nil
                    /\ ~ferm[v].manual_nut_on
                    /\ ~StartsPump(calls, v))
    /\ [][(op = "stop_all" /\ op' = "tick")
             => \A v \in Vessels :
                    /\ ~ferm'[v].cold_in /\ ~ferm'[v].hot_in
                    /\ ferm'[v].nut_running_until = Nil
                    /\ ~StartsPump(calls', v)
                    /\ \A i \in RelayCallsFor(calls', v) : calls'[i].fn # "relay_on"]_vars


\* ========================================================================
\* Further properties of temperature control, checked under SpecThermal
\* ========================================================================

\* C34: in automatic mode the rest state is left for good.  A tick of a panel
\* in automatic mode that finds either actuator on leaves exactly one of
\* cold_in and hot_in true, whatever the temperature, setpoint and band; and
\* the edits of setpoint, band and calendar between ticks turn no actuator
\* off.  So once a tick has turned an actuator on, exactly one is on after
\* every later automatic tick until an operator command.
C34_RestLeftForGood ==
    /\ [][\A v \in Vessels :
              (/\ op' = "tick"
               /\ ~ferm[v].manual_mode
               /\ (ferm[v].cold_in \/ ferm[v].hot_in))
              => /\ ~ferm'[v].manual_mode
                 /\ ferm'[v].cold_in # ferm'[v].hot_in]_vars
    /\ [][\A v \in Vessels :
              op' = "ui" => /\ ferm'[v].cold_in = ferm[v].cold_in
                            /\ ferm'[v].hot_in = ferm[v].hot_in]_vars

\* a tick in automatic mode has kept cooling on at a temperature inside the
\* band, where a panel at rest would have stayed at rest
C34_Witness ==
    \E v \in Operated :
        /\ op = "tick"
        /\ ~ferm[v].manual_mode
        /\ ferm[v].cold_in /\ ~ferm[v].hot_in
        /\ ferm[v].t < ferm[v].sp + EffectiveBand(ferm[v].band)
        /\ ferm[v].t > ferm[v].sp - EffectiveBand(ferm[v].band)


\* ========================================================================
\* Further properties of the calendar functions, checked under SpecCal
\* ========================================================================

\* the events of tm's date whose time string passes hhmm_ok
ValidOn(events_dict, tm) ==
    LET flist == DictGet(events_dict, ymd(DateOf(tm)))
    IN  {i \in DOMAIN flist : hhmm_ok(flist[i].time)}

\* C35: every event whose time string passes hhmm_ok, zero-padded or not, is
\* evaluated at its chronological time: nut_fire_for_minute returns its value
\* at an instant whose hour and minute are the event's, and
\* sp_from_date_calendar, from that minute to the end of the date, returns the
\* value of an event that is not earlier in the day.
C35_ValidTimesEvaluated ==
    LET flist == DictGet(arg.events_dict, ymd(DateOf(arg.t)))
        tnow == HourOf(arg.t) * 60 + MinuteOf(arg.t)
    IN  /\ ret.fn = "nut_fire_for_minute"
           => \A i \in ValidOn(arg.events_dict, arg.t) :
                  MinuteOfDay(flist[i].time) = tnow
                  => \E k \in DOMAIN ret.value : ret.value[k] = flist[i].value
        /\ ret.fn = "sp_from_date_calendar"
           => \A i \in ValidOn(arg.events_dict, arg.t) :
                  MinuteOfDay(flist[i].time) <= tnow
                  => \E j \in ValidOn(arg.events_dict, arg.t) :
                         /\ MinuteOfDay(flist[j].time) >= MinuteOfDay(flist[i].time)
                         /\ MinuteOfDay(flist[j].time) <= tnow
                         /\ ret.value = flist[j].value


\* ========================================================================
\* Further properties of the dosing events, checked under SpecDosing
\* ========================================================================

\* the events of panel v's dosing calendar that fall on the minute of tnow
SameMinute(v, tnow) ==
    LET flist == DictGet(ferm[v].cal_nut, ymd(DateOf(tnow)))
    IN  {i \in DOMAIN flist : flist[i].time = strftime_HM(tnow)}

\* the sum of the strictly positive durations of the events idx of flist
RECURSIVE PositiveSeconds(_, _)
PositiveSeconds(flist, idx) ==
    IF idx = {} THEN 0
    ELSE LET i == CHOOSE k \in idx : TRUE
         IN  (IF flist[i].value > 0 THEN flist[i].value ELSE 0)
                 + PositiveSeconds(flist, idx \ {i})

\* C36: when several dosing events fall on the same minute, the window opened
\* by the first tick of that minute ends at the tick time plus the sum of their
\* strictly positive durations.
C36_WindowIsPositiveSum ==
    [][\A v \in Vessels :
          LET flist == DictGet(ferm[v].cal_nut, ymd(DateOf(clock')))
              total == PositiveSeconds(flist, SameMinute(v, clock'))
          IN  (/\ op' = "tick"
               /\ ferm[v].last_min # strftime_YmdHM(clock')
               /\ Cardinality(SameMinute(v, clock')) > 1
               /\ total > 0)
              => /\ fired'[v]
                 /\ ferm'[v].nut_running_until = clock' + total]_vars

\* the tick that fired the events 1 s, -1 s and 2 s of 08:00 opened a window
\* of 3 s
C36_Witness ==
    \E v \in Operated :
        /\ op = "tick"
        /\ fired[v]
        /\ ferm[v].cal_nut = (0 :> << Event(HM(8, 0), 1), Event(HM(8, 0), 0 - 1), Event(HM(8, 0), 2) >>)
        /\ ferm[v].nut_running_until = clock + 3


\* C37: a scheduled dose never shortens a dosing window that is still running:
\* a tick reached while the window is open leaves nut_running_until no
\* earlier than it was.
C37_DoseNeverShortensWindow ==
    [][\A v \in Vessels :
          (/\ op' = "tick"
           /\ ferm[v].nut_running_until # Nil
           /\ clock' < ferm[v].nut_running_until)
          => /\ ferm'[v].nut_running_until # Nil
             /\ ferm'[v].nut_running_until >= ferm[v].nut_running_until]_vars


\* ========================================================================
\* Properties of the setpoint calendar in the tick, checked under SpecThermal
\* ========================================================================

\* the setpoint calendar of v has no event applicable at tnow: no event on the
\* date, or only events later in the day
NoApplicableEvent(v, tnow) ==
    LET flist == DictGet(ferm[v].cal_sp, ymd(DateOf(tnow)))
    IN  \A i \in DOMAIN flist :
            MinuteOfDay(flist[i].time) > HourOf(tnow) * 60 + MinuteOf(tnow)

\* C38: a tick for which the setpoint calendar has no applicable event (empty
\* calendar, no event on the date, or only events later in the day) leaves
\* the setpoint of the vessel unchanged.
C38_SetpointHeld ==
    [][\A v \in Vessels :
          (op' = "tick" /\ NoApplicableEvent(v, clock'))
          => ferm'[v].sp = ferm[v].sp]_vars


\* C39: while the actuator domain is real hardware, the last command issued to
\* each relay matches the logical state: after every automatic tick, force
\* command, close-all and stop_all, the cold relay is commanded on (its pin
\* driven LOW) iff cold_in and the hot relay iff hot_in.
C39_RelaysMatchFlags ==
    (/\ op \in {"tick", "forzar_frio", "forzar_caliente", "cerrar_todo", "stop_all"}
     /\ ~HwInactive(hw))
    => \A v \in Vessels :
           /\ (hw.out[RELAY_PINS[v].cold] = "LOW") <=> ferm[v].cold_in
           /\ (hw.out[RELAY_PINS[v].hot] = "LOW") <=> ferm[v].hot_in

\* on real hardware a forced heating has replaced a forced cooling: the hot
\* relay is on and the cold relay has been switched off
C39_Witness ==
    \E v \in Operated :
        /\ op = "forzar_caliente"
        /\ ~HwInactive(hw)
        /\ ferm[v].hot_in /\ ~ferm[v].cold_in
        /\ hw.out[RELAY_PINS[v].hot] = "LOW"
        /\ hw.out[RELAY_PINS[v].cold] = "HIGH"
        /\ \E i \in RelayCallsFor(calls, v) :
               calls[i] = Call("relay_off", RELAY_PINS[v].cold)


\* ========================================================================
\* Further properties of the calendar dialog, checked under SpecDialog
\* ========================================================================

====
